---- MODULE Spec2Model ----
(***************************************************************************)
(* Model of the hierarchical injector of di/injector (class Injector, the  *)
(* two strategies _SyncInjectorStrategy and _AsyncInjectorStrategy and     *)
(* _flattenBindings).  A lookup is one atomic step of the single thread of *)
(* control; every callback of the future chain built by                    *)
(* _AsyncInjectorStrategy.instantiate is a step of its own.                *)
(***************************************************************************)
EXTENDS Integers, Sequences, FiniteSets, TLC

VARIABLES world, keyIds, injectors, broken, watch

vars == <<world, keyIds, injectors, broken, watch>>

(***************************************************************************)
(* Bounds of the model.                                                    *)
(***************************************************************************)
MaxInjectors == 2
MaxFutures == 2
MaxCalls == 3
MaxFuturesAlone == 3
MaxFuturesStale == 4

(***************************************************************************)
(* Tokens.  "Inj" is the Injector class itself, "Z" is bound nowhere.      *)
(***************************************************************************)
Tokens == {"Inj", "A", "B", "C", "Z"}
NumTokens == Cardinality(Tokens)
KeyIdRange == 1..NumTokens
InjectorToken == "Inj"

(***************************************************************************)
(* Values held by slots, passed to factories and returned by lookups.      *)
(* One record shape for all of them.                                       *)
(***************************************************************************)
V(tag, a, b, c) == [tag |-> tag, a |-> a, b |-> b, c |-> c]
Null == V("null", 0, 0, 0)
Constructing == V("constructing", 0, 0, 0)
Waiting(i, k, n) == V("waiting", i, k, n)
Obj(i, k, n) == V("obj", i, k, n)
InjVal(i) == V("inj", i, 0, 0)
Fut(i, k, n) == V("fut", i, k, n)
Thunk(i, k, rf) == V("thunk", i, k, IF rf THEN 1 ELSE 0)
FutureValue(v) == V("ready", v.a, v.b, IF v.tag = "inj" THEN 0 - 1 ELSE v.c)
ReadyValue(r) == IF r.c < 0 THEN InjVal(r.a) ELSE Obj(r.a, r.b, r.c)

IsPresent(v) == v.tag # "null"
IsBlank(v) == v.tag = "null"
IsWaiting(v) == v.tag = "waiting"

(***************************************************************************)
(* Errors: a kind, the chain of keys added by addKey (innermost first),    *)
(* the injector that threw it and, for an InstantiationError, the kind of  *)
(* the exception it wraps.                                                 *)
(***************************************************************************)
Err(tag, keys, at, cause) == [tag |-> tag, keys |-> keys, at |-> at, cause |-> cause]
NoErr == Err("none", <<>>, 0, "none")
NoProviderError(i, k) == Err("NoProvider", <<k>>, i, "none")
CyclicDependencyError(i, k) == Err("Cyclic", <<k>>, i, "none")
AsyncBindingError(i, k) == Err("AsyncBinding", <<k>>, i, "none")
InstantiationError(i, e, k) == Err("Instantiation", <<k>>, i, e.tag)
OriginalException(i) == Err("Original", <<>>, i, "none")
InvalidBindingError(named) == Err("InvalidBinding", <<>>, 0, named)
IsProviderError(e) == e.tag \in {"NoProvider", "Cyclic", "AsyncBinding", "Instantiation"}
AddKey(e, k) == IF IsProviderError(e) THEN [e EXCEPT !.keys = Append(@, k)] ELSE e

(***************************************************************************)
(* Key registry: Key.get allocates the next id on first sight.             *)
(***************************************************************************)
NumberOfKeys(reg) == Cardinality({t \in Tokens : reg[t] # 0})
KeyGet(reg, tok) ==
    IF reg[tok] # 0 THEN reg ELSE [reg EXCEPT ![tok] = NumberOfKeys(reg) + 1]

RECURSIVE KeyGetAll(_, _)
KeyGetAll(reg, toks) ==
    IF toks = <<>> THEN reg ELSE KeyGetAll(KeyGet(reg, Head(toks)), Tail(toks))

(***************************************************************************)
(* Raw bindings handed to the constructor and to createChild.              *)
(***************************************************************************)
Dep(tok, asFuture, lazy) == [tok |-> tok, asFuture |-> asFuture, lazy |-> lazy]
D(tok) == Dep(tok, FALSE, FALSE)
Raw(kind, tok, deps, async, fac, items) ==
    [kind |-> kind, tok |-> tok, deps |-> deps, async |-> async, fac |-> fac,
     items |-> items]
Bind(tok, deps, fac) == Raw("Binding", tok, deps, FALSE, fac, <<>>)
BindAsync(tok, deps, fac) == Raw("Binding", tok, deps, TRUE, fac, <<>>)
BareType(tok) == Raw("Type", tok, <<>>, FALSE, "new", <<>>)
RawList(items) == Raw("List", "Z", <<>>, FALSE, "none", items)
Builder(tok) == Raw("Builder", tok, <<>>, FALSE, "none", <<>>)
Other == Raw("Other", "Z", <<>>, FALSE, "none", <<>>)

NoBinding == [key |-> 0, deps |-> <<>>, async |-> FALSE, fac |-> "none"]

(***************************************************************************)
(* bind(token).toFactory(...) and friends: the Binding of a raw element,   *)
(* with the keys of its token and of its dependencies.                     *)
(***************************************************************************)
RawTokens(b) == <<b.tok>> \o [n \in 1..Len(b.deps) |-> b.deps[n].tok]
ToBinding(reg, b) ==
    [key |-> reg[b.tok],
     deps |-> [n \in 1..Len(b.deps) |->
                 [key |-> reg[b.deps[n].tok], asFuture |-> b.deps[n].asFuture,
                  lazy |-> b.deps[n].lazy]],
     async |-> b.async, fac |-> b.fac]

(***************************************************************************)
(* The tokens a raw collection has registered before the constructor runs  *)
(* (every finished bind(...) called Key.get on its token and dependencies).*)
(***************************************************************************)
RECURSIVE RegisterRaw(_, _)
RegisterRaw(reg, items) ==
    IF items = <<>> THEN reg
    ELSE LET b == Head(items)
             r == CASE b.kind = "Binding" -> KeyGetAll(reg, RawTokens(b))
                    [] b.kind = "List" -> RegisterRaw(reg, b.items)
                    [] OTHER -> reg
         IN  RegisterRaw(r, Tail(items))

(***************************************************************************)
(* A _flattenBindings that keeps the first binding of a key.               *)
(***************************************************************************)
RECURSIVE FlattenBindingsFirstWins(_, _, _)
FlattenBindingsFirstWins(items, res, reg) ==
    IF items = <<>> THEN [ok |-> TRUE, res |-> res, reg |-> reg, e |-> NoErr]
    ELSE LET b == Head(items) IN
         CASE b.kind \in {"Binding", "Type"} ->
                LET reg1 == KeyGetAll(reg, RawTokens(b))
                    k == reg1[b.tok] IN
                FlattenBindingsFirstWins(Tail(items),
                    IF res[k] = NoBinding THEN [res EXCEPT ![k] = ToBinding(reg1, b)]
                    ELSE res, reg1)
           [] b.kind = "List" ->
                LET r == FlattenBindingsFirstWins(b.items, res, reg) IN
                IF r.ok THEN FlattenBindingsFirstWins(Tail(items), r.res, r.reg) ELSE r
           [] b.kind = "Builder" ->
                [ok |-> FALSE, res |-> res, reg |-> reg, e |-> InvalidBindingError(b.tok)]
           [] OTHER ->
                [ok |-> FALSE, res |-> res, reg |-> reg, e |-> InvalidBindingError(b.kind)]

(***************************************************************************)
(* A _flattenBindings that skips what it does not recognise.               *)
(***************************************************************************)
RECURSIVE FlattenBindingsLenient(_, _, _)
FlattenBindingsLenient(items, res, reg) ==
    IF items = <<>> THEN [ok |-> TRUE, res |-> res, reg |-> reg, e |-> NoErr]
    ELSE LET b == Head(items) IN
         CASE b.kind \in {"Binding", "Type"} ->
                LET reg1 == KeyGetAll(reg, RawTokens(b)) IN
                FlattenBindingsLenient(Tail(items),
                    [res EXCEPT ![reg1[b.tok]] = ToBinding(reg1, b)], reg1)
           [] b.kind = "List" ->
                LET r == FlattenBindingsLenient(b.items, res, reg) IN
                FlattenBindingsLenient(Tail(items), r.res, r.reg)
           [] OTHER -> FlattenBindingsLenient(Tail(items), res, reg)

(***************************************************************************)
(* _flattenBindings: res maps key ids to bindings, later entries overwrite *)
(* earlier ones; a builder throws InvalidBindingError(b.token), any other  *)
(* element InvalidBindingError(b), here named by its kind.                 *)
(***************************************************************************)
RECURSIVE FlattenBindings(_, _, _)
FlattenBindings(items, res, reg) ==
    IF items = <<>> THEN [ok |-> TRUE, res |-> res, reg |-> reg, e |-> NoErr]
    ELSE LET b == Head(items) IN
         CASE b.kind = "Binding" ->
                FlattenBindings(Tail(items),
                                [res EXCEPT ![reg[b.tok]] = ToBinding(reg, b)], reg)
           [] b.kind = "Type" ->
                LET reg1 == KeyGetAll(reg, RawTokens(b)) IN
                FlattenBindings(Tail(items),
                                [res EXCEPT ![reg1[b.tok]] = ToBinding(reg1, b)], reg1)
           [] b.kind = "List" ->
                LET r == FlattenBindings(b.items, res, reg) IN
                IF r.ok THEN FlattenBindings(Tail(items), r.res, r.reg) ELSE r
           [] b.kind = "Builder" ->
                [ok |-> FALSE, res |-> res, reg |-> reg, e |-> InvalidBindingError(b.tok)]
           [] OTHER ->
                [ok |-> FALSE, res |-> res, reg |-> reg, e |-> InvalidBindingError(b.kind)]

EmptyMap == [k \in KeyIdRange |-> NoBinding]

(***************************************************************************)
(* _createListOfBindings and _createInstances: fixed-size lists of         *)
(* Key.numberOfKeys() + 1 entries.                                         *)
(***************************************************************************)
CreateListOfBindings(flatten, reg) ==
    [k \in KeyIdRange |-> IF k < NumberOfKeys(reg) + 1 THEN flatten[k] ELSE NoBinding]
CreateInstances == [k \in KeyIdRange |-> Null]

NoFutures == [k \in KeyIdRange |-> <<>>]
NoCalls == [k \in KeyIdRange |-> <<>>]

(***************************************************************************)
(* new Injector(bindings, parent).  futs and calls are the futures built   *)
(* by, and the factory invocations of, each binding of this injector.      *)
(***************************************************************************)
NewInjector(flat, parent) ==
    [parent |-> parent,
     size |-> NumberOfKeys(flat.reg) + 1,
     bindings |-> CreateListOfBindings(flat.res, flat.reg),
     instances |-> CreateInstances,
     futs |-> NoFutures,
     calls |-> NoCalls]

(***************************************************************************)
(* The program state an operation reads and writes: the key registry, the  *)
(* injectors and the condition the flaky factories depend on.              *)
(***************************************************************************)
Heap(reg, injs, brk) == [reg |-> reg, injs |-> injs, broken |-> brk]

Ok(h, v) == [h |-> h, ok |-> TRUE, v |-> v, e |-> NoErr]
Fail(h, e) == [h |-> h, ok |-> FALSE, v |-> Null, e |-> e]

(***************************************************************************)
(* Injector._getInstance, _setInstance, _getBinding, _markAsConstructing,  *)
(* _clear.                                                                 *)
(***************************************************************************)
GetInstance(h, i, k) ==
    IF h.injs[i].size <= k THEN Null ELSE h.injs[i].instances[k]

(***************************************************************************)
(* A _setInstance that writes the slot array of the root injector.         *)
(***************************************************************************)
SetInstanceInRoot(h, i, k, obj) == [h EXCEPT !.injs[1].instances[k] = obj]

SetInstance(h, i, k, obj) == [h EXCEPT !.injs[i].instances[k] = obj]

GetBinding(h, i, k) ==
    IF h.injs[i].size <= k THEN NoBinding ELSE h.injs[i].bindings[k]

MarkAsConstructing(h, i, k) == SetInstance(h, i, k, Constructing)

Clear(h, i, k) == SetInstance(h, i, k, Null)

(***************************************************************************)
(* binding.factory(deps): the invocation is logged in calls; the n-th      *)
(* invocation of a binding produces the instance Obj(i, k, n); by is the   *)
(* future whose callback made the call, 0 for a synchronous one.  A flaky  *)
(* factory throws while the outside condition is broken; a "null" factory  *)
(* returns null (toValue(null)).                                           *)
(***************************************************************************)
Factory(h, i, k, b, deps, by) ==
    LET n == Len(h.injs[i].calls[k]) + 1
        out == CASE b.fac = "flaky" /\ h.broken -> "throw"
                 [] b.fac = "null" -> "null"
                 [] OTHER -> "value"
        h1 == [h EXCEPT !.injs[i].calls[k] =
                            Append(@, [args |-> deps, out |-> out, by |-> by])]
    IN  CASE out = "throw" -> Fail(h1, OriginalException(i))
          [] out = "null" -> Ok(h1, Null)
          [] OTHER -> Ok(h1, Obj(i, k, n))

(***************************************************************************)
(* A synchronous readFromCache that never finds a resolved instance.       *)
(***************************************************************************)
SyncReadFromCacheMiss(h, i, k) ==
    IF k = h.reg[InjectorToken] THEN Ok(h, InjVal(i))
    ELSE IF GetInstance(h, i, k) = Constructing THEN Fail(h, CyclicDependencyError(i, k))
    ELSE Ok(h, Null)

(***************************************************************************)
(* A readFromCache of the synchronous strategy without the case of the     *)
(* Injector token.                                                         *)
(***************************************************************************)
SyncReadFromCacheNoSelf(h, i, k) ==
    LET instance == GetInstance(h, i, k) IN
    IF instance = Constructing THEN Fail(h, CyclicDependencyError(i, k))
    ELSE IF IsPresent(instance) /\ ~IsWaiting(instance) THEN Ok(h, instance)
    ELSE Ok(h, Null)

(***************************************************************************)
(* A readFromCache of the synchronous strategy without the test for the    *)
(* construction marker: the marker is present and not a _Waiting, so it is *)
(* returned as the instance.                                               *)
(***************************************************************************)
SyncReadFromCacheNoCycleCheck(h, i, k) ==
    IF k = h.reg[InjectorToken] THEN Ok(h, InjVal(i))
    ELSE LET instance == GetInstance(h, i, k) IN
         IF IsPresent(instance) /\ ~IsWaiting(instance) THEN Ok(h, instance)
         ELSE Ok(h, Null)

(***************************************************************************)
(* _SyncInjectorStrategy.readFromCache                                     *)
(***************************************************************************)
SyncReadFromCache(h, i, k) ==
    IF k = h.reg[InjectorToken] THEN Ok(h, InjVal(i))
    ELSE LET instance == GetInstance(h, i, k) IN
         IF instance = Constructing THEN Fail(h, CyclicDependencyError(i, k))
         ELSE IF IsPresent(instance) /\ ~IsWaiting(instance) THEN Ok(h, instance)
         ELSE Ok(h, Null)

(***************************************************************************)
(* A _createInstance whose catch wraps the exception without clearing the  *)
(* slot.                                                                   *)
(***************************************************************************)
SyncCreateInstanceNoClear(h, i, k, b, deps) ==
    LET c == Factory(h, i, k, b, deps, 0) IN
    IF c.ok THEN Ok(SetInstance(c.h, i, k, c.v), c.v)
    ELSE Fail(c.h, InstantiationError(i, c.e, k))

(***************************************************************************)
(* _SyncInjectorStrategy._createInstance                                   *)
(***************************************************************************)
SyncCreateInstance(h, i, k, b, deps) ==
    LET c == Factory(h, i, k, b, deps, 0) IN
    IF c.ok THEN Ok(SetInstance(c.h, i, k, c.v), c.v)
    ELSE Fail(Clear(c.h, i, k), InstantiationError(i, c.e, k))

(***************************************************************************)
(* A readFromCache of the asynchronous strategy that does not hand out the *)
(* pending future of a slot under asynchronous construction.               *)
(***************************************************************************)
AsyncReadFromCacheNoShare(h, i, k) ==
    IF k = h.reg[InjectorToken] THEN Ok(h, FutureValue(InjVal(i)))
    ELSE LET instance == GetInstance(h, i, k) IN
         IF instance = Constructing THEN Fail(h, CyclicDependencyError(i, k))
         ELSE IF IsPresent(instance) /\ ~IsWaiting(instance)
              THEN Ok(h, FutureValue(instance))
         ELSE Ok(h, Null)

(***************************************************************************)
(* _AsyncInjectorStrategy.readFromCache                                    *)
(***************************************************************************)
AsyncReadFromCache(h, i, k) ==
    IF k = h.reg[InjectorToken] THEN Ok(h, FutureValue(InjVal(i)))
    ELSE LET instance == GetInstance(h, i, k) IN
         IF instance = Constructing THEN Fail(h, CyclicDependencyError(i, k))
         ELSE IF IsWaiting(instance) THEN Ok(h, Fut(instance.a, instance.b, instance.c))
         ELSE IF IsPresent(instance) THEN Ok(h, FutureValue(instance))
         ELSE Ok(h, Null)

(***************************************************************************)
(* The future a call of _AsyncInjectorStrategy.instantiate builds:         *)
(*   wait(deps) . catchError(_errorHandler) . then(_findOrCreate)          *)
(*              . then(_cacheInstance)                                     *)
(* phase "deps": wait(deps) has not settled or its callback has not run;   *)
(* "factory": an async factory returned a future that has not settled;     *)
(* "cache": _findOrCreate returned val, _cacheInstance has not run;        *)
(* "done" / "failed": settled with val / err; why tells a failure of a     *)
(* dependency from a failure of the binding's own factory.                 *)
(***************************************************************************)
NewFuture(deps) ==
    [deps |-> deps, phase |-> "deps", val |-> Null, err |-> NoErr, why |-> "none"]

RECURSIVE GetByKey(_, _, _, _, _)
RECURSIVE MapDependencies(_, _, _, _, _, _)

(***************************************************************************)
(* A _resolveDependencies whose catch rethrows without clearing the slot.  *)
(***************************************************************************)
ResolveDependenciesNoClear(h, i, k, b, forceAsync) ==
    LET m == MapDependencies(h, i, b.deps, 1, forceAsync, <<>>) IN
    IF m.ok THEN m
    ELSE [h |-> m.h, ok |-> FALSE, vs |-> <<>>, e |-> AddKey(m.e, k)]

(***************************************************************************)
(* A _resolveDependencies whose catch rethrows without adding the key.     *)
(***************************************************************************)
ResolveDependenciesNoAddKey(h, i, k, b, forceAsync) ==
    LET m == MapDependencies(h, i, b.deps, 1, forceAsync, <<>>) IN
    IF m.ok THEN m
    ELSE [h |-> Clear(m.h, i, k), ok |-> FALSE, vs |-> <<>>, e |-> m.e]

(***************************************************************************)
(* Injector._resolveDependencies                                           *)
(***************************************************************************)
ResolveDependencies(h, i, k, b, forceAsync) ==
    LET m == MapDependencies(h, i, b.deps, 1, forceAsync, <<>>) IN
    IF m.ok THEN m
    ELSE [h |-> Clear(m.h, i, k), ok |-> FALSE, vs |-> <<>>, e |-> AddKey(m.e, k)]

(***************************************************************************)
(* A synchronous instantiate that writes the construction marker before it *)
(* looks at the async flag of the binding.                                 *)
(***************************************************************************)
SyncInstantiateMarkFirst(h, i, k) ==
    LET binding == GetBinding(h, i, k) IN
    IF binding = NoBinding THEN Ok(h, Null)
    ELSE IF binding.async THEN Fail(MarkAsConstructing(h, i, k), AsyncBindingError(i, k))
    ELSE LET deps == ResolveDependencies(MarkAsConstructing(h, i, k), i, k, binding, FALSE) IN
         IF deps.ok THEN SyncCreateInstance(deps.h, i, k, binding, deps.vs)
         ELSE Fail(deps.h, deps.e)

(***************************************************************************)
(* A synchronous instantiate that writes the construction marker before it *)
(* looks for the binding.                                                  *)
(***************************************************************************)
SyncInstantiateMarkBeforeLookup(h, i, k) ==
    LET binding == GetBinding(h, i, k)
        h1 == MarkAsConstructing(h, i, k) IN
    IF binding = NoBinding THEN Ok(h1, Null)
    ELSE IF binding.async THEN Fail(h, AsyncBindingError(i, k))
    ELSE LET deps == ResolveDependencies(h1, i, k, binding, FALSE) IN
         IF deps.ok THEN SyncCreateInstance(deps.h, i, k, binding, deps.vs)
         ELSE Fail(deps.h, deps.e)

(***************************************************************************)
(* _SyncInjectorStrategy.instantiate                                       *)
(***************************************************************************)
SyncInstantiate(h, i, k) ==
    LET binding == GetBinding(h, i, k) IN
    IF binding = NoBinding THEN Ok(h, Null)
    ELSE IF binding.async THEN Fail(h, AsyncBindingError(i, k))
    ELSE LET deps == ResolveDependencies(MarkAsConstructing(h, i, k), i, k, binding, FALSE) IN
         IF deps.ok THEN SyncCreateInstance(deps.h, i, k, binding, deps.vs)
         ELSE Fail(deps.h, deps.e)

(***************************************************************************)
(* An asynchronous instantiate that does not install the waiting marker.   *)
(***************************************************************************)
AsyncInstantiateNoMarker(h, i, k) ==
    LET binding == GetBinding(h, i, k) IN
    IF binding = NoBinding THEN Ok(h, Null)
    ELSE LET deps == ResolveDependencies(MarkAsConstructing(h, i, k), i, k, binding, TRUE) IN
         IF ~deps.ok THEN Fail(deps.h, deps.e)
         ELSE LET n == Len(deps.h.injs[i].futs[k]) + 1 IN
              Ok([deps.h EXCEPT !.injs[i].futs[k] = Append(@, NewFuture(deps.vs))],
                 Fut(i, k, n))

(***************************************************************************)
(* An asynchronous instantiate that writes the construction marker before  *)
(* it looks for the binding.                                               *)
(***************************************************************************)
AsyncInstantiateMarkBeforeLookup(h, i, k) ==
    LET binding == GetBinding(h, i, k)
        h0 == MarkAsConstructing(h, i, k) IN
    IF binding = NoBinding THEN Ok(h0, Null)
    ELSE LET deps == ResolveDependencies(h0, i, k, binding, TRUE) IN
         IF deps.ok
         THEN LET n == Len(deps.h.injs[i].futs[k]) + 1
                  h1 == [deps.h EXCEPT !.injs[i].futs[k] = Append(@, NewFuture(deps.vs))]
              IN  Ok(SetInstance(h1, i, k, Waiting(i, k, n)), Fut(i, k, n))
         ELSE Fail(deps.h, deps.e)

(***************************************************************************)
(* _AsyncInjectorStrategy.instantiate: the future is built from the        *)
(* dependencies' futures and installed as the waiting marker.              *)
(***************************************************************************)
AsyncInstantiate(h, i, k) ==
    LET binding == GetBinding(h, i, k) IN
    IF binding = NoBinding THEN Ok(h, Null)
    ELSE LET deps == ResolveDependencies(MarkAsConstructing(h, i, k), i, k, binding, TRUE) IN
         IF deps.ok
         THEN LET n == Len(deps.h.injs[i].futs[k]) + 1
                  h1 == [deps.h EXCEPT !.injs[i].futs[k] = Append(@, NewFuture(deps.vs))]
              IN  Ok(SetInstance(h1, i, k, Waiting(i, k, n)), Fut(i, k, n))
         ELSE Fail(deps.h, deps.e)

ReadFromCache(h, i, k, returnFuture) ==
    IF returnFuture THEN AsyncReadFromCache(h, i, k) ELSE SyncReadFromCache(h, i, k)

Instantiate(h, i, k, returnFuture) ==
    IF returnFuture THEN AsyncInstantiate(h, i, k) ELSE SyncInstantiate(h, i, k)

(***************************************************************************)
(* A _getByKey that performs the lookup of a lazy dependency at once.      *)
(***************************************************************************)
GetByKeyEager(h, i, k, returnFuture, returnLazy) ==
    LET cached == ReadFromCache(h, i, k, returnFuture) IN
    IF ~cached.ok \/ IsPresent(cached.v) THEN cached
    ELSE LET instance == Instantiate(h, i, k, returnFuture) IN
         IF ~instance.ok \/ IsPresent(instance.v) THEN instance
         ELSE IF h.injs[i].parent # 0
              THEN GetByKey(instance.h, h.injs[i].parent, k, returnFuture, returnLazy)
              ELSE Fail(instance.h, NoProviderError(i, k))

(***************************************************************************)
(* A _getByKey that, for a token bound by its parent only, constructs the  *)
(* parent's binding in its own scope.                                      *)
(***************************************************************************)
GetByKeyInRequesterScope(h, i, k, returnFuture, returnLazy) ==
    IF returnLazy THEN Ok(h, Thunk(i, k, returnFuture))
    ELSE LET cached == ReadFromCache(h, i, k, returnFuture) IN
         IF ~cached.ok \/ IsPresent(cached.v) THEN cached
         ELSE LET instance == Instantiate(h, i, k, returnFuture) IN
              IF ~instance.ok \/ IsPresent(instance.v) THEN instance
              ELSE IF h.injs[i].parent = 0 THEN Fail(instance.h, NoProviderError(i, k))
              ELSE LET b == GetBinding(h, h.injs[i].parent, k) IN
                   IF returnFuture \/ b = NoBinding \/ b.async
                   THEN GetByKey(instance.h, h.injs[i].parent, k, returnFuture, returnLazy)
                   ELSE LET deps == ResolveDependencies(instance.h, i, k, b, FALSE) IN
                        IF deps.ok
                        THEN SyncCreateInstance(deps.h, h.injs[i].parent, k, b, deps.vs)
                        ELSE Fail(deps.h, deps.e)

(***************************************************************************)
(* A _getByKey that does not consult the parent.                           *)
(***************************************************************************)
GetByKeyOwnOnly(h, i, k, returnFuture, returnLazy) ==
    IF returnLazy THEN Ok(h, Thunk(i, k, returnFuture))
    ELSE LET cached == ReadFromCache(h, i, k, returnFuture) IN
         IF ~cached.ok \/ IsPresent(cached.v) THEN cached
         ELSE LET instance == Instantiate(h, i, k, returnFuture) IN
              IF ~instance.ok \/ IsPresent(instance.v) THEN instance
              ELSE Fail(instance.h, NoProviderError(i, k))

(***************************************************************************)
(* Injector._getByKey                                                      *)
(***************************************************************************)
GetByKey(h, i, k, returnFuture, returnLazy) ==
    IF returnLazy THEN Ok(h, Thunk(i, k, returnFuture))
    ELSE LET cached == ReadFromCache(h, i, k, returnFuture) IN
         IF ~cached.ok \/ IsPresent(cached.v) THEN cached
         ELSE LET instance == Instantiate(h, i, k, returnFuture) IN
              IF ~instance.ok \/ IsPresent(instance.v) THEN instance
              ELSE IF h.injs[i].parent # 0
                   THEN GetByKey(instance.h, h.injs[i].parent, k, returnFuture, returnLazy)
                   ELSE Fail(instance.h, NoProviderError(i, k))

(***************************************************************************)
(* A dependency map that looks every dependency up in the mode of the      *)
(* caller, whatever its asFuture mark.                                     *)
(***************************************************************************)
MapDependenciesCallerMode(h, i, deps, n, forceAsync, acc) ==
    IF n > Len(deps) THEN [h |-> h, ok |-> TRUE, vs |-> acc, e |-> NoErr]
    ELSE LET d == deps[n]
             r == GetByKey(h, i, d.key, forceAsync, d.lazy)
         IN  IF r.ok THEN MapDependencies(r.h, i, deps, n + 1, forceAsync, Append(acc, r.v))
             ELSE [h |-> r.h, ok |-> FALSE, vs |-> acc, e |-> r.e]

(***************************************************************************)
(* ListWrapper.map(binding.dependencies, getDependency): in order, the     *)
(* first exception ends the map.                                           *)
(***************************************************************************)
MapDependencies(h, i, deps, n, forceAsync, acc) ==
    IF n > Len(deps) THEN [h |-> h, ok |-> TRUE, vs |-> acc, e |-> NoErr]
    ELSE LET d == deps[n]
             r == GetByKey(h, i, d.key, forceAsync \/ d.asFuture, d.lazy)
         IN  IF r.ok THEN MapDependencies(r.h, i, deps, n + 1, forceAsync, Append(acc, r.v))
             ELSE [h |-> r.h, ok |-> FALSE, vs |-> acc, e |-> r.e]

(***************************************************************************)
(* Futures.  A dependency handed to FutureWrapper.wait is a future of some *)
(* binding, an already completed future (FutureWrapper.value) or, for a    *)
(* lazy dependency, a thunk, which wait treats as a value.                 *)
(***************************************************************************)
FutureOf(h, v) == h.injs[v.a].futs[v.b][v.c]

Settled(h, v) ==
    v.tag = "fut" => FutureOf(h, v).phase \in {"done", "failed"}

Failed(h, v) == v.tag = "fut" /\ FutureOf(h, v).phase = "failed"

Completed(h, v) == v.tag = "fut" => FutureOf(h, v).phase = "done"

SettledValue(h, v) ==
    CASE v.tag = "fut" -> FutureOf(h, v).val
      [] v.tag = "ready" -> ReadyValue(v)
      [] OTHER -> v

WaitValues(h, deps) == [n \in 1..Len(deps) |-> SettledValue(h, deps[n])]

(***************************************************************************)
(* _AsyncInjectorStrategy._errorHandler, run when wait(deps) fails with    *)
(* the error e of a dependency: the future fails with e, key added.        *)
(***************************************************************************)
ErrorHandler(h, i, k, n, e) ==
    [h EXCEPT !.injs[i].futs[k][n].phase = "failed",
              !.injs[i].futs[k][n].why = "dependency",
              !.injs[i].futs[k][n].err = AddKey(e, k)]

(***************************************************************************)
(* _AsyncInjectorStrategy._findOrCreate, run when wait(deps) completed.    *)
(* The factory of an async binding returns a future: the chain waits for   *)
(* it (phase "factory").                                                   *)
(***************************************************************************)
FindOrCreate(h, i, k, n) ==
    LET instance == GetInstance(h, i, k)
        binding == GetBinding(h, i, k)
        deps == WaitValues(h, h.injs[i].futs[k][n].deps)
    IN  IF ~IsWaiting(instance)
        THEN [h EXCEPT !.injs[i].futs[k][n].phase = "cache",
                       !.injs[i].futs[k][n].val = instance]
        ELSE LET c == Factory(h, i, k, binding, deps, n) IN
             IF ~c.ok
             THEN [Clear(c.h, i, k) EXCEPT
                       !.injs[i].futs[k][n].phase = "failed",
                       !.injs[i].futs[k][n].why = "factory",
                       !.injs[i].futs[k][n].err = InstantiationError(i, c.e, k)]
             ELSE [c.h EXCEPT !.injs[i].futs[k][n].phase =
                                   IF binding.async THEN "factory" ELSE "cache",
                              !.injs[i].futs[k][n].val = c.v]

(***************************************************************************)
(* The future an async factory returned settles: with the value, or, when  *)
(* the outside condition is broken for a flaky factory, with a failure,    *)
(* which the chain passes on (no callback of the injector runs).           *)
(***************************************************************************)
FactorySettle(h, i, k, n) ==
    IF GetBinding(h, i, k).fac = "flaky" /\ h.broken
    THEN [h EXCEPT !.injs[i].futs[k][n].phase = "failed",
                   !.injs[i].futs[k][n].why = "factory",
                   !.injs[i].futs[k][n].val = Null,
                   !.injs[i].futs[k][n].err = OriginalException(i)]
    ELSE [h EXCEPT !.injs[i].futs[k][n].phase = "cache"]

(***************************************************************************)
(* A variant of _cacheInstance that releases the binding of a key once its *)
(* instance is cached.                                                     *)
(***************************************************************************)
CacheInstanceReleasingBinding(h, i, k, n) ==
    [SetInstance(h, i, k, h.injs[i].futs[k][n].val)
        EXCEPT !.injs[i].futs[k][n].phase = "done",
               !.injs[i].bindings[k] = NoBinding]

(***************************************************************************)
(* _AsyncInjectorStrategy._cacheInstance                                   *)
(***************************************************************************)
CacheInstance(h, i, k, n) ==
    [SetInstance(h, i, k, h.injs[i].futs[k][n].val)
        EXCEPT !.injs[i].futs[k][n].phase = "done"]

(***************************************************************************)
(* Raw binding collections of the model.  A world is the collection the    *)
(* root injector is built from, the collections createChild is called      *)
(* with, the tokens that are looked up, and whether one returned instance  *)
(* is remembered in watch.                                                 *)
(***************************************************************************)
Diamond ==
    <<Bind("A", <<D("B"), D("C")>>, "new"),
      RawList(<<Bind("B", <<D("C")>>, "new"), Bind("C", <<>>, "flaky")>>)>>
Cycle ==
    <<Bind("A", <<D("C"), D("B")>>, "new"), Bind("B", <<D("A")>>, "new"),
      Bind("C", <<>>, "flaky")>>
AsyncOnly ==
    <<BindAsync("C", <<>>, "flaky"), Bind("A", <<Dep("C", TRUE, FALSE)>>, "new"),
      Bind("B", <<D("C")>>, "new")>>
LazyCycle ==
    <<Bind("A", <<Dep("B", FALSE, TRUE), D("Inj")>>, "new"),
      Bind("B", <<D("A")>>, "new"), Bind("C", <<>>, "null")>>

Chain == <<Bind("B", <<D("C")>>, "new"), Bind("C", <<>>, "flaky")>>

Shadow == <<Bind("C", <<>>, "new")>>
AsyncShadow == <<BindAsync("C", <<>>, "flaky")>>
NullShadow == <<BareType("B"), RawList(<<Bind("C", <<>>, "null")>>)>>
Unfinished == <<Bind("C", <<>>, "new"), RawList(<<Builder("A")>>)>>
Malformed == <<BareType("Z"), RawList(<<RawList(<<Other>>), Bind("C", <<>>, "new")>>)>>
OwnInjector == <<Bind("Inj", <<>>, "new"), Bind("A", <<D("Inj")>>, "new")>>
Late == <<Bind("Inj", <<>>, "new"), BareType("Z")>>
AsyncNull ==
    <<BindAsync("C", <<>>, "null"), Bind("A", <<Dep("C", TRUE, FALSE)>>, "new")>>
OnlyBelow == <<Bind("A", <<D("C")>>, "new"), Bind("B", <<D("A")>>, "new")>>
Nested ==
    <<Bind("A", <<D("C")>>, "new"), Bind("B", <<D("C")>>, "new"),
      RawList(<<BareType("B"), RawList(<<Bind("A", <<D("C"), D("B")>>, "flaky")>>)>>),
      Bind("C", <<>>, "new")>>

World(root, children, lookups, watching) ==
    [root |-> root, children |-> children, lookups |-> lookups, watching |-> watching]

Worlds ==
    [diamond |-> World(Diamond, {AsyncShadow}, {"A", "B", "C", "Z"}, FALSE),
     cycle |-> World(Cycle, {AsyncShadow}, {"A", "B", "C", "Z"}, FALSE),
     async |-> World(AsyncOnly, {NullShadow}, {"A", "B", "C", "Z"}, FALSE),
     lazy |-> World(LazyCycle, {AsyncShadow}, {"A", "B", "C", "Inj"}, FALSE),
     nested |-> World(Nested, {Shadow, Unfinished, Malformed}, {"A", "B", "C"}, FALSE),
     own |-> World(OwnInjector, {Late}, {"Inj", "A", "Z"}, FALSE),
     below |-> World(OnlyBelow, {Shadow}, {"A", "B", "C"}, FALSE),
     asyncnull |-> World(AsyncNull, {}, {"A", "C"}, FALSE),
     alone |-> World(Diamond, {}, {"A"}, FALSE),
     stale |-> World(Chain, {}, {"B"}, FALSE),
     watched |-> World(Diamond, {AsyncShadow}, {"A", "B", "C", "Z"}, TRUE)]

(***************************************************************************)
(* Counters that keep the model finite.                                    *)
(***************************************************************************)
RECURSIVE SumLen(_, _)
SumLen(f, ks) ==
    IF ks = {} THEN 0
    ELSE LET k == CHOOSE x \in ks : TRUE IN Len(f[k]) + SumLen(f, ks \ {k})

RECURSIVE TotalCalls(_, _)
TotalCalls(injs, n) ==
    IF n = 0 THEN 0 ELSE SumLen(injs[n].calls, KeyIdRange) + TotalCalls(injs, n - 1)

RECURSIVE TotalFutures(_, _)
TotalFutures(injs, n) ==
    IF n = 0 THEN 0 ELSE SumLen(injs[n].futs, KeyIdRange) + TotalFutures(injs, n - 1)

FutureBound ==
    CASE world = "alone" -> MaxFuturesAlone
      [] world = "stale" -> MaxFuturesStale
      [] OTHER -> MaxFutures
WithinBounds(h) ==
    /\ TotalCalls(h.injs, Len(h.injs)) <= MaxCalls
    /\ TotalFutures(h.injs, Len(h.injs)) <= FutureBound

H == Heap(keyIds, injectors, broken)

Idle == [inj |-> 0, key |-> 0, v |-> Null]

(***************************************************************************)
(* new Injector(bindings, parent): the constructor throws what             *)
(* _flattenBindings throws and then there is no injector.                  *)
(* Init: the state after new Injector(rootBindings).                       *)
(***************************************************************************)
Construct(reg, injs, raw, parent) ==
    LET flat == FlattenBindings(raw, EmptyMap, RegisterRaw(reg, raw)) IN
    [ok |-> flat.ok, reg |-> flat.reg, e |-> flat.e,
     injs |-> IF flat.ok THEN Append(injs, NewInjector(flat, parent)) ELSE injs]

InitOf(names) ==
    \E w \in names :
        LET c == Construct([t \in Tokens |-> 0], <<>>, Worlds[w].root, 0) IN
        /\ world = w
        /\ keyIds = c.reg
        /\ injectors = c.injs
        /\ broken = FALSE
        /\ watch = Idle

Init == InitOf({"diamond", "cycle", "async", "lazy", "nested", "own", "below", "asyncnull", "alone"})

(***************************************************************************)
(* Injector.get(token) and Injector.asyncGet(token): Key.get(token), then  *)
(* _getByKey.                                                              *)
(***************************************************************************)
Lookup(reg, injs, brk, i, tok, returnFuture) ==
    LET reg1 == KeyGet(reg, tok) IN
    GetByKey(Heap(reg1, injs, brk), i, reg1[tok], returnFuture, FALSE)

Get(i, tok) ==
    LET r == Lookup(keyIds, injectors, broken, i, tok, FALSE) IN
    /\ WithinBounds(r.h)
    /\ keyIds' = r.h.reg
    /\ injectors' = r.h.injs
    /\ watch' \in IF Worlds[world].watching /\ watch = Idle /\ r.ok /\ r.v.tag = "obj"
                  THEN {watch, [inj |-> i, key |-> r.h.reg[tok], v |-> r.v]}
                  ELSE {watch}
    /\ UNCHANGED <<world, broken>>

AsyncGet(i, tok) ==
    LET r == Lookup(keyIds, injectors, broken, i, tok, TRUE) IN
    /\ WithinBounds(r.h)
    /\ keyIds' = r.h.reg
    /\ injectors' = r.h.injs
    /\ UNCHANGED <<world, broken, watch>>

(***************************************************************************)
(* A createChild whose table starts from a copy of the parent's table.     *)
(***************************************************************************)
CreateChildInheriting(p, raw) ==
    LET flat == FlattenBindings(raw, injectors[p].bindings, RegisterRaw(keyIds, raw)) IN
    /\ Len(injectors) < MaxInjectors
    /\ keyIds' = flat.reg
    /\ injectors' = IF flat.ok THEN Append(injectors, NewInjector(flat, p)) ELSE injectors
    /\ UNCHANGED <<world, broken, watch>>

(***************************************************************************)
(* Injector.createChild(bindings)                                          *)
(***************************************************************************)
CreateChild(p, raw) ==
    LET c == Construct(keyIds, injectors, raw, p) IN
    /\ Len(injectors) < MaxInjectors
    /\ keyIds' = c.reg
    /\ injectors' = c.injs
    /\ UNCHANGED <<world, broken, watch>>

(***************************************************************************)
(* The callbacks of a pending future, one step each.                       *)
(***************************************************************************)
Pending(i, k, n, phase) ==
    /\ n \in 1..Len(injectors[i].futs[k])
    /\ injectors[i].futs[k][n].phase = phase

StepErrorHandler(i, k, n) ==
    /\ Pending(i, k, n, "deps")
    /\ \E d \in 1..Len(injectors[i].futs[k][n].deps) :
          LET dep == injectors[i].futs[k][n].deps[d] IN
          /\ Failed(H, dep)
          /\ injectors' = ErrorHandler(H, i, k, n, FutureOf(H, dep).err).injs
    /\ UNCHANGED <<world, keyIds, broken, watch>>

(***************************************************************************)
(* A _findOrCreate callback that runs without waiting for the futures of   *)
(* the dependencies.                                                       *)
(***************************************************************************)
StepFindOrCreateEarly(i, k, n) ==
    /\ Pending(i, k, n, "deps")
    /\ injectors' = FindOrCreate(H, i, k, n).injs
    /\ UNCHANGED <<world, keyIds, broken, watch>>

StepFindOrCreate(i, k, n) ==
    /\ Pending(i, k, n, "deps")
    /\ \A d \in 1..Len(injectors[i].futs[k][n].deps) :
          Completed(H, injectors[i].futs[k][n].deps[d])
    /\ injectors' = FindOrCreate(H, i, k, n).injs
    /\ UNCHANGED <<world, keyIds, broken, watch>>

StepFactorySettle(i, k, n) ==
    /\ Pending(i, k, n, "factory")
    /\ injectors' = FactorySettle(H, i, k, n).injs
    /\ UNCHANGED <<world, keyIds, broken, watch>>

StepCacheInstance(i, k, n) ==
    /\ Pending(i, k, n, "cache")
    /\ injectors' = CacheInstance(H, i, k, n).injs
    /\ UNCHANGED <<world, keyIds, broken, watch>>

(***************************************************************************)
(* The condition the flaky factories depend on changes.                    *)
(***************************************************************************)
Toggle ==
    /\ broken' = ~broken
    /\ UNCHANGED <<world, keyIds, injectors, watch>>

Next ==
    \/ \E i \in 1..Len(injectors), tok \in Worlds[world].lookups : Get(i, tok)
    \/ \E i \in 1..Len(injectors), tok \in Worlds[world].lookups : AsyncGet(i, tok)
    \/ \E p \in 1..Len(injectors), raw \in Worlds[world].children : CreateChild(p, raw)
    \/ \E i \in 1..Len(injectors), k \in KeyIdRange, n \in 1..MaxFuturesStale :
          StepErrorHandler(i, k, n)
    \/ \E i \in 1..Len(injectors), k \in KeyIdRange, n \in 1..MaxFuturesStale :
          StepFindOrCreate(i, k, n)
    \/ \E i \in 1..Len(injectors), k \in KeyIdRange, n \in 1..MaxFuturesStale :
          StepFactorySettle(i, k, n)
    \/ \E i \in 1..Len(injectors), k \in KeyIdRange, n \in 1..MaxFuturesStale :
          StepCacheInstance(i, k, n)
    \/ Toggle

Spec == Init /\ [][Next]_vars

SpecWatch == InitOf({"watched"}) /\ [][Next]_vars

(***************************************************************************)
(* The callbacks run on the event loop: a callback that is ready to run is *)
(* run, whatever lookups the program goes on to make.                      *)
(***************************************************************************)
Callback ==
    \E i \in 1..Len(injectors), k \in KeyIdRange, n \in 1..MaxFuturesStale :
        \/ StepErrorHandler(i, k, n)
        \/ StepFindOrCreate(i, k, n)
        \/ StepFactorySettle(i, k, n)
        \/ StepCacheInstance(i, k, n)

SpecFair == InitOf({"stale", "async"}) /\ [][Next]_vars /\ WF_vars(Callback)

(***************************************************************************)
(* Vocabulary of the properties.                                           *)
(***************************************************************************)
Injs == 1..Len(injectors)
Bound(i, k) == k # 0 /\ GetBinding(H, i, k) # NoBinding
RECURSIVE Binder(_, _)
Binder(i, k) ==
    IF i = 0 THEN 0 ELSE IF Bound(i, k) THEN i ELSE Binder(injectors[i].parent, k)
RECURSIVE IsAncestor(_, _)
IsAncestor(a, i) ==
    i # 0 /\ injectors[i].parent # 0
          /\ (injectors[i].parent = a \/ IsAncestor(a, injectors[i].parent))
Slot(h, i, k) == h.injs[i].instances[k]
Calls(h, i, k) == h.injs[i].calls[k]
Productive(h, i, k) == {c \in 1..Len(Calls(h, i, k)) : Calls(h, i, k)[c].out = "value"}
SyncGet(i, tok) == Lookup(keyIds, injectors, broken, i, tok, FALSE)
AsyncGetOf(i, tok) == Lookup(keyIds, injectors, broken, i, tok, TRUE)
LookupTokens == Worlds[world].lookups

(***************************************************************************)
(* C1 (cache coherence): once a get of a token on an injector has returned *)
(* an instance, every later get of that token on that injector returns     *)
(* the identical instance and does not invoke the factory again.           *)
(* The observer remembers one returned instance; the property evaluates    *)
(* the next get in every later state.                                      *)
(***************************************************************************)
C1_CacheCoherence ==
    watch # Idle =>
        LET r == GetByKey(H, watch.inj, watch.key, FALSE, FALSE) IN
        /\ r.ok
        /\ r.v = watch.v
        /\ Calls(r.h, watch.v.a, watch.v.b) = Calls(H, watch.v.a, watch.v.b)

(***************************************************************************)
(* C2 (at most one concurrent construction), as stated: while a            *)
(* computation of an earlier asyncGet of a token is pending, a second      *)
(* asyncGet of the token on the same injector returns that same handle,    *)
(* and the factory is invoked exactly once.                                *)
(***************************************************************************)
PendingFutures(i, k) ==
    {n \in 1..Len(injectors[i].futs[k]) :
        injectors[i].futs[k][n].phase \notin {"done", "failed"}}
C2_SameHandleWhilePending ==
    \A i \in Injs : \A k \in KeyIdRange : \A n \in PendingFutures(i, k) :
        LET r == GetByKey(H, i, k, TRUE, FALSE) IN
        /\ r.ok
        /\ r.v = Fut(i, k, n)
        /\ Len(Calls(r.h, i, k)) <= 1

(***************************************************************************)
(* C2, amended: while the pending marker of an earlier asyncGet is still   *)
(* in the slot of the token, in the injector or in the nearest ancestor    *)
(* that binds it, a second asyncGet returns the very handle of the marker, *)
(* starts no construction and invokes no factory; a computation invokes    *)
(* the factory of its binding at most once.                                *)
(***************************************************************************)
CallsBy(i, k, n) == {c \in 1..Len(Calls(H, i, k)) : Calls(H, i, k)[c].by = n}
C2_SameHandleWhileMarked ==
    /\ \A i \in Injs : \A tok \in LookupTokens :
        LET k == keyIds[tok]
            d == Binder(i, k) IN
        (d # 0 /\ IsWaiting(Slot(H, d, k))) =>
            LET r == AsyncGetOf(i, tok) IN
            /\ r.ok
            /\ r.v = Fut(d, k, Slot(H, d, k).c)
            /\ r.h = H
    /\ \A i \in Injs : \A k \in KeyIdRange : \A n \in 1..Len(injectors[i].futs[k]) :
        Cardinality(CallsBy(i, k, n)) <= 1

C2_Witness ==
    \E i \in Injs : \E tok \in LookupTokens :
        LET k == keyIds[tok]
            d == Binder(i, k) IN
        /\ d # 0 /\ d # i
        /\ IsWaiting(Slot(H, d, k))
        /\ injectors[d].futs[k][Slot(H, d, k).c].phase = "cache"
        /\ CallsBy(d, k, Slot(H, d, k).c) # {}
        /\ AsyncGetOf(i, tok).v = Fut(d, k, Slot(H, d, k).c)

(***************************************************************************)
(* The dependency graph of the bindings: a bound key of an injector points *)
(* to each of its non-lazy dependencies, in the injector that binds it for *)
(* the scope of the owner.                                                 *)
(***************************************************************************)
Nodes == {nd \in Injs \X KeyIdRange : Bound(nd[1], nd[2])}
Edges(nd) ==
    LET b == GetBinding(H, nd[1], nd[2]) IN
    {<<Binder(nd[1], b.deps[n].key), b.deps[n].key>> :
        n \in {m \in 1..Len(b.deps) : ~b.deps[m].lazy
                                        /\ Binder(nd[1], b.deps[m].key) # 0}}
RECURSIVE ReachFrom(_, _)
ReachFrom(S, fuel) ==
    LET T == S \cup UNION {Edges(nd) : nd \in S} IN
    IF fuel = 0 \/ T = S THEN S ELSE ReachFrom(T, fuel - 1)
Reaches(nd, md) == md \in ReachFrom(Edges(nd), Cardinality(Nodes))
OnCycle(nd) == Reaches(nd, nd)
CycleOf(nd) == {md \in Nodes : Reaches(nd, md) /\ Reaches(md, nd)}

(***************************************************************************)
(* C3 (cycle detection), as stated: when a token depends on itself through *)
(* non-lazy dependencies, get of it raises CyclicDependencyError and the   *)
(* slots of the keys on the cycle are empty afterwards.                    *)
(***************************************************************************)
C3_CycleRaisesCyclic ==
    \A i \in Injs : \A tok \in LookupTokens :
        LET k == keyIds[tok]
            d == Binder(i, k) IN
        (d # 0 /\ OnCycle(<<d, k>>)) =>
            LET r == SyncGet(i, tok) IN
            /\ ~r.ok
            /\ r.e.tag = "Cyclic"
            /\ \A md \in CycleOf(<<d, k>>) : Slot(r.h, md[1], md[2]) = Null

(***************************************************************************)
(* C3, amended: get of a token on a cycle never returns; it raises         *)
(* CyclicDependencyError naming a key of the cycle, unless a dependency    *)
(* met before the cycle closes fails on its own (its factory throws, it    *)
(* has no provider, it is async-only), and then it raises the error of     *)
(* that dependency.  Either way the slots of the keys on the cycle are     *)
(* empty afterwards.                                                       *)
(***************************************************************************)
C3_CycleNeverResolves ==
    \A i \in Injs : \A tok \in LookupTokens :
        LET k == keyIds[tok]
            d == Binder(i, k) IN
        (d # 0 /\ OnCycle(<<d, k>>)) =>
            LET r == SyncGet(i, tok) IN
            /\ ~r.ok
            /\ IsProviderError(r.e)
            /\ r.e.tag = "Cyclic" => <<r.e.at, r.e.keys[1]>> \in CycleOf(<<d, k>>)
            /\ r.e.tag # "Cyclic" =>
                   LET s == GetByKey(H, r.e.at, r.e.keys[1], FALSE, FALSE) IN
                   ~s.ok /\ s.e.tag = r.e.tag /\ s.e.keys = <<r.e.keys[1]>>
            /\ \A md \in CycleOf(<<d, k>>) : Slot(r.h, md[1], md[2]) = Null

C3_Witness ==
    \E i \in Injs : \E tok \in LookupTokens :
        LET k == keyIds[tok]
            d == Binder(i, k)
            r == SyncGet(i, tok) IN
        /\ d # 0 /\ d # i
        /\ OnCycle(<<d, k>>)
        /\ Cardinality(CycleOf(<<d, k>>)) > 1
        /\ r.e.tag = "Cyclic"
        /\ Len(r.e.keys) = 3
        /\ r.h # H

(***************************************************************************)
(* C4 (parent delegation): a token bound only on the root is resolvable by *)
(* get from every injector of the tree, all of them receive the one        *)
(* instance a get has returned, and the factory has produced one instance  *)
(* in total.                                                               *)
(***************************************************************************)
RECURSIVE Root(_)
Root(i) == IF injectors[i].parent = 0 THEN i ELSE Root(injectors[i].parent)
BoundOnlyOnRoot(k) == \A j \in Injs : Bound(j, k) <=> j = Root(j)
C4_ParentDelegation ==
    (watch # Idle /\ BoundOnlyOnRoot(watch.key)) =>
        \A j \in Injs :
            LET r == GetByKey(H, j, watch.key, FALSE, FALSE) IN
            /\ r.ok
            /\ r.v = watch.v
            /\ Cardinality(Productive(r.h, Root(j), watch.key)) = 1

(***************************************************************************)
(* C5 (shadowing): when an injector binds a token that one of its          *)
(* ancestors binds too, a get of the token on it, or on a descendant that  *)
(* reaches it first, returns an instance built from its own binding and    *)
(* cached in its own slot, whatever the ancestor holds; a get on the       *)
(* ancestor returns an instance of the ancestor's binding.                 *)
(***************************************************************************)
Shadows(d, k) == Bound(d, k) /\ \E a \in Injs : IsAncestor(a, d) /\ Bound(a, k)
C5_Shadowing ==
    \A i \in Injs : \A tok \in LookupTokens :
        LET k == keyIds[tok]
            d == Binder(i, k) IN
        (d # 0 /\ Shadows(d, k)) =>
            LET r == SyncGet(i, tok) IN
            /\ r.ok => (r.v.tag = "obj" /\ r.v.a = d /\ Slot(r.h, d, k) = r.v)
            /\ \A a \in Injs :
                   (IsAncestor(a, d) /\ Bound(a, k)) =>
                       LET s == SyncGet(a, tok) IN
                       s.ok => (s.v.tag = "obj" /\ s.v.a = a)

(***************************************************************************)
(* C6 (no provider), as stated: a get or asyncGet of a token bound neither *)
(* in the injector nor in an ancestor fails with NoProviderError naming    *)
(* the token.                                                              *)
(***************************************************************************)
LateKey(tok) == KeyGet(keyIds, tok)[tok]
C6_UnboundFails ==
    \A i \in Injs : \A tok \in LookupTokens :
        Binder(i, LateKey(tok)) = 0 =>
            /\ SyncGet(i, tok).e = NoProviderError(Root(i), LateKey(tok))
            /\ AsyncGetOf(i, tok).e = NoProviderError(Root(i), LateKey(tok))

(***************************************************************************)
(* C6, amended: a get or asyncGet of a token other than the Injector token *)
(* itself, bound neither in the injector nor in an ancestor, fails with    *)
(* NoProviderError naming the token, thrown by the root of the chain, and  *)
(* writes no slot.                                                         *)
(***************************************************************************)
C6_UnboundFailsUnlessInjector ==
    \A i \in Injs : \A tok \in LookupTokens \ {InjectorToken} :
        Binder(i, LateKey(tok)) = 0 =>
            /\ SyncGet(i, tok).e = NoProviderError(Root(i), LateKey(tok))
            /\ AsyncGetOf(i, tok).e = NoProviderError(Root(i), LateKey(tok))
            /\ SyncGet(i, tok).h.injs = injectors
            /\ AsyncGetOf(i, tok).h.injs = injectors

C6_Witness ==
    \E i \in Injs : \E tok \in LookupTokens \ {InjectorToken} :
        /\ Root(i) # i
        /\ keyIds[tok] # 0
        /\ Binder(i, keyIds[tok]) = 0
        /\ SyncGet(i, tok).e = NoProviderError(Root(i), keyIds[tok])
        /\ AsyncGetOf(i, tok).e = NoProviderError(Root(i), keyIds[tok])

(***************************************************************************)
(* C7 (async-only binding under get): a synchronous lookup that comes to   *)
(* instantiate an async-only binding fails with AsyncBindingError naming   *)
(* the key, and the slot of that key is what it was before the lookup.     *)
(***************************************************************************)
AsyncOnlyMiss(i, k) ==
    /\ Bound(i, k) /\ GetBinding(H, i, k).async
    /\ k # keyIds[InjectorToken]
    /\ (IsBlank(Slot(H, i, k)) \/ IsWaiting(Slot(H, i, k)))
C7_AsyncBindingError ==
    /\ \A i \in Injs : \A k \in KeyIdRange :
        AsyncOnlyMiss(i, k) =>
            LET r == GetByKey(H, i, k, FALSE, FALSE) IN
            ~r.ok /\ r.e = AsyncBindingError(i, k) /\ r.h = H
    /\ \A i \in Injs : \A tok \in LookupTokens :
        LET r == SyncGet(i, tok) IN
        r.e.tag = "AsyncBinding" =>
            /\ AsyncOnlyMiss(r.e.at, r.e.keys[1])
            /\ Slot(r.h, r.e.at, r.e.keys[1]) = Slot(H, r.e.at, r.e.keys[1])

C7_Witness ==
    \E i \in Injs : \E tok \in LookupTokens :
        LET r == SyncGet(i, tok) IN
        /\ r.e.tag = "AsyncBinding"
        /\ Len(r.e.keys) = 2
        /\ IsWaiting(Slot(H, r.e.at, r.e.keys[1]))
        /\ Slot(r.h, r.e.at, r.e.keys[1]) = Slot(H, r.e.at, r.e.keys[1])

(***************************************************************************)
(* C8 (factory failure under get): when the factory of the token throws    *)
(* during a get, the get raises an InstantiationError that wraps the       *)
(* exception and names the token alone, the slot of the token is empty     *)
(* afterwards, and the next get, once the factory returns an instance,     *)
(* invokes the factory again and returns and caches that new instance.     *)
(***************************************************************************)
Threw(h, d, k) ==
    /\ Len(Calls(h, d, k)) = Len(Calls(H, d, k)) + 1
    /\ Calls(h, d, k)[Len(Calls(h, d, k))].out = "throw"
Repaired(h) == [h EXCEPT !.broken = FALSE]
C8_SyncFactoryFailure ==
    \A i \in Injs : \A tok \in LookupTokens :
        LET k == keyIds[tok]
            d == Binder(i, k)
            r == SyncGet(i, tok) IN
        (d # 0 /\ Threw(r.h, d, k)) =>
            /\ ~r.ok
            /\ r.e = InstantiationError(d, OriginalException(d), k)
            /\ Slot(r.h, d, k) = Null
            /\ LET s == GetByKey(Repaired(r.h), i, k, FALSE, FALSE) IN
               /\ s.ok
               /\ s.v = Obj(d, k, Len(Calls(r.h, d, k)) + 1)
               /\ Slot(s.h, d, k) = s.v

C8_Witness ==
    \E i \in Injs : \E tok \in LookupTokens :
        LET k == keyIds[tok]
            d == Binder(i, k)
            r == SyncGet(i, tok) IN
        /\ d # 0
        /\ Len(Calls(H, d, k)) = 1
        /\ Calls(H, d, k)[1].out = "throw"
        /\ Slot(H, d, k) = Null
        /\ Threw(r.h, d, k)
        /\ GetByKey(Repaired(r.h), i, k, FALSE, FALSE).v = Obj(d, k, 3)

(***************************************************************************)
(* C9 (factory failure under asyncGet): when the factory of the token      *)
(* fails inside the computation of an asyncGet, the computation fails with *)
(* InstantiationError, the slot no longer holds its pending marker, and    *)
(* the next asyncGet does not return the failed computation.               *)
(***************************************************************************)
FailedFutures(i, k, why) ==
    {n \in 1..Len(injectors[i].futs[k]) :
        /\ injectors[i].futs[k][n].phase = "failed"
        /\ injectors[i].futs[k][n].why = why}
C9_AsyncFactoryFailure ==
    \A i \in Injs : \A k \in KeyIdRange : \A n \in FailedFutures(i, k, "factory") :
        /\ injectors[i].futs[k][n].err.tag = "Instantiation"
        /\ Slot(H, i, k) # Waiting(i, k, n)
        /\ GetByKey(H, i, k, TRUE, FALSE).v # Fut(i, k, n)

(***************************************************************************)
(* C10 (rollback on every error): no lookup that raised leaves a           *)
(* construction marker behind, no slot holds the pending marker of a       *)
(* computation that has failed, whatever made it fail, and a resolved slot *)
(* holds an instance that a successful call of the factory of its own      *)
(* binding returned.                                                       *)
(***************************************************************************)
NoMarker(h) ==
    \A j \in 1..Len(h.injs) : \A k \in KeyIdRange : Slot(h, j, k) # Constructing
C10_Rollback ==
    /\ NoMarker(H)
    /\ \A i \in Injs : \A tok \in LookupTokens :
        /\ ~SyncGet(i, tok).ok => NoMarker(SyncGet(i, tok).h)
        /\ ~AsyncGetOf(i, tok).ok => NoMarker(AsyncGetOf(i, tok).h)
    /\ \A i \in Injs : \A k \in KeyIdRange :
        /\ \A n \in FailedFutures(i, k, "factory") \cup FailedFutures(i, k, "dependency") :
               Slot(H, i, k) # Waiting(i, k, n)
        /\ Slot(H, i, k).tag \notin {"null", "waiting"} =>
               /\ Slot(H, i, k).tag = "obj"
               /\ Slot(H, i, k).a = i /\ Slot(H, i, k).b = k
               /\ Slot(H, i, k).c \in Productive(H, i, k)

(***************************************************************************)
(* C11 (flattening is last-wins): the binding table of every injector maps *)
(* each key id to the descriptor that comes last for it in the depth-first *)
(* left-to-right order of the raw collection the injector was built from,  *)
(* a bare type counting as its default descriptor, and has no other entry. *)
(***************************************************************************)
RECURSIVE Leaves(_)
Leaves(items) ==
    IF items = <<>> THEN <<>>
    ELSE LET b == Head(items) IN
         (IF b.kind = "List" THEN Leaves(b.items) ELSE <<b>>) \o Leaves(Tail(items))
Occurrences(raw, k) == {n \in 1..Len(Leaves(raw)) : keyIds[Leaves(raw)[n].tok] = k}
LastOf(S) == CHOOSE n \in S : \A m \in S : m <= n
LastWinsTable(raw) ==
    [k \in KeyIdRange |->
        IF Occurrences(raw, k) = {} THEN NoBinding
        ELSE ToBinding(keyIds, Leaves(raw)[LastOf(Occurrences(raw, k))])]
Wellformed(raw) == \A n \in 1..Len(Leaves(raw)) : Leaves(raw)[n].kind \in {"Binding", "Type"}
BuiltFrom(i) ==
    IF injectors[i].parent = 0 THEN {Worlds[world].root}
    ELSE {raw \in Worlds[world].children : Wellformed(raw)}
C11_FlattenLastWins ==
    \A i \in Injs : \E raw \in BuiltFrom(i) : injectors[i].bindings = LastWinsTable(raw)

C11_Witness ==
    /\ Len(injectors) = 2
    /\ \E k \in KeyIdRange :
        /\ Cardinality(Occurrences(Worlds[world].root, k)) = 2
        /\ injectors[1].bindings[k].fac = "flaky"
        /\ Len(injectors[1].bindings[k].deps) = 2
        /\ injectors[1].bindings = LastWinsTable(Worlds[world].root)
        /\ injectors[2].bindings[k] = NoBinding

(***************************************************************************)
(* C12 (invalid input): new Injector or createChild with a collection that *)
(* holds, at any depth, an unfinished builder or an element of another     *)
(* shape throws InvalidBindingError naming the first such element (the     *)
(* token of a builder, the element itself otherwise), builds no injector   *)
(* and leaves the injectors that exist as they are.                        *)
(***************************************************************************)
Offending(raw) ==
    Leaves(raw)[CHOOSE n \in 1..Len(Leaves(raw)) :
                    /\ Leaves(raw)[n].kind \notin {"Binding", "Type"}
                    /\ \A m \in 1..(n - 1) : Leaves(raw)[m].kind \in {"Binding", "Type"}]
NamedBy(b) == IF b.kind = "Builder" THEN b.tok ELSE b.kind
InvalidInputs == {raw \in Worlds[world].children : ~Wellformed(raw)}
C12_InvalidInput ==
    \A raw \in InvalidInputs : \A p \in Injs \cup {0} :
        LET c == Construct(keyIds, injectors, raw, p)
            r == Construct(keyIds, <<>>, raw, 0) IN
        /\ ~c.ok
        /\ c.e = InvalidBindingError(NamedBy(Offending(raw)))
        /\ c.injs = injectors
        /\ ~r.ok /\ r.injs = <<>>

C12_Witness ==
    /\ Len(injectors) = 1
    /\ keyIds["Z"] # 0
    /\ \E k \in KeyIdRange : Slot(H, 1, k).tag = "obj"
    /\ \E raw \in InvalidInputs :
        /\ Construct(keyIds, injectors, raw, 1).e = InvalidBindingError("Other")
        /\ Construct(keyIds, injectors, raw, 1).injs = injectors
    /\ \E raw \in InvalidInputs :
        Construct(keyIds, injectors, raw, 1).e = InvalidBindingError("A")

(***************************************************************************)
(* C13 (dependency identity), as stated: the value the factory of a token  *)
(* receives for a plain dependency (not lazy, not a future) during a get   *)
(* is the instance a get of the dependency on the same injector returns    *)
(* next.                                                                   *)
(***************************************************************************)
Built(h, d, k) ==
    /\ Len(Calls(h, d, k)) = Len(Calls(H, d, k)) + 1
    /\ Calls(h, d, k)[Len(Calls(h, d, k))].out = "value"
PlainDeps(d, k) ==
    {n \in 1..Len(GetBinding(H, d, k).deps) :
        ~GetBinding(H, d, k).deps[n].lazy /\ ~GetBinding(H, d, k).deps[n].asFuture}
Received(h, d, k, n) == Calls(h, d, k)[Len(Calls(h, d, k))].args[n]
C13_DependencyOfRequester ==
    \A i \in Injs : \A tok \in LookupTokens :
        LET k == keyIds[tok]
            d == Binder(i, k)
            r == SyncGet(i, tok) IN
        (d # 0 /\ r.ok /\ Built(r.h, d, k)) =>
            \A n \in PlainDeps(d, k) :
                LET s == GetByKey(r.h, i, GetBinding(H, d, k).deps[n].key, FALSE, FALSE) IN
                s.ok /\ s.v = Received(r.h, d, k, n)

(***************************************************************************)
(* C13, amended: the value the factory receives for a plain dependency is  *)
(* the instance held in the dependency's slot, and a get of the dependency *)
(* on the injector whose binding of the token was used (the injector of    *)
(* the get when it binds the token, else the nearest ancestor that does)   *)
(* returns that very instance next, without calling a factory.             *)
(***************************************************************************)
C13_DependencyOfOwner ==
    \A i \in Injs : \A tok \in LookupTokens :
        LET k == keyIds[tok]
            d == Binder(i, k)
            r == SyncGet(i, tok) IN
        (d # 0 /\ r.ok /\ Built(r.h, d, k)) =>
            \A n \in PlainDeps(d, k) :
                LET s == GetByKey(r.h, d, GetBinding(H, d, k).deps[n].key, FALSE, FALSE) IN
                /\ s.ok
                /\ s.v = Received(r.h, d, k, n)
                /\ s.h.injs = r.h.injs
                /\ s.v.tag = "obj" => Slot(r.h, s.v.a, s.v.b) = s.v

C13_Witness ==
    \E i \in Injs : \E tok \in LookupTokens :
        LET k == keyIds[tok]
            d == Binder(i, k)
            r == SyncGet(i, tok) IN
        /\ d # 0 /\ d # i /\ r.ok /\ Built(r.h, d, k)
        /\ \E n \in PlainDeps(d, k) :
            LET dk == GetBinding(H, d, k).deps[n].key IN
            /\ Bound(i, dk)
            /\ Slot(H, i, dk).tag = "obj"
            /\ Slot(H, d, dk) = Null
            /\ Received(r.h, d, k, n).tag = "obj"
            /\ Received(r.h, d, k, n) # Slot(H, i, dk)
            /\ GetByKey(r.h, d, dk, FALSE, FALSE).v = Received(r.h, d, k, n)

(***************************************************************************)
(* C14 (slot transitions), as stated: from one call or callback to the     *)
(* next a slot changes only along compositions of empty -> marker,         *)
(* marker -> resolved and construction marker -> empty: a pending slot     *)
(* changes to resolved only, a resolved slot does not change.              *)
(***************************************************************************)
IsResolved(v) == v.tag \in {"obj", "inj"}
SlotChanges ==
    {c \in (1..Len(injectors)) \X KeyIdRange :
        injectors'[c[1]].instances[c[2]] # injectors[c[1]].instances[c[2]]}
Old(c) == injectors[c[1]].instances[c[2]]
New(c) == injectors'[c[1]].instances[c[2]]
CachedBy(c) ==
    \E n \in 1..Len(injectors[c[1]].futs[c[2]]) :
        /\ injectors[c[1]].futs[c[2]][n].phase = "cache"
        /\ injectors'[c[1]].futs[c[2]][n].phase = "done"
        /\ injectors[c[1]].futs[c[2]][n].val = New(c)
C15_ResolvedNeverRegresses ==
    [][\A i \in 1..Len(injectors) : \A k \in KeyIdRange :
          IsResolved(injectors[i].instances[k]) =>
              injectors'[i].instances[k] = injectors[i].instances[k]]_vars

(***************************************************************************)
(* C16 (sole ownership), as stated: while the computation whose pending    *)
(* marker is in a slot has not settled, a lookup of the key on that        *)
(* injector, get or asyncGet, leaves the marker, calls no factory and      *)
(* starts no computation.                                                  *)
(***************************************************************************)
InFlight(i, k) ==
    /\ IsWaiting(Slot(H, i, k))
    /\ Slot(H, i, k).c \in PendingFutures(i, k)
Untouched(h, i, k) ==
    /\ Slot(h, i, k) = Slot(H, i, k)
    /\ Calls(h, i, k) = Calls(H, i, k)
    /\ Len(h.injs[i].futs[k]) = Len(injectors[i].futs[k])
C16_SoleOwner ==
    \A i \in Injs : \A k \in KeyIdRange :
        InFlight(i, k) =>
            /\ Untouched(GetByKey(H, i, k, FALSE, FALSE).h, i, k)
            /\ Untouched(GetByKey(H, i, k, TRUE, FALSE).h, i, k)

(***************************************************************************)
(* C16, amended: an asyncGet shares the computation whose marker is in the *)
(* slot: a computation of a key is started, and a pending marker written,  *)
(* only when the slot holds no pending marker.  A get does not share it:   *)
(* unless the binding is async-only, it takes the construction over and    *)
(* replaces the marker.                                                    *)
(***************************************************************************)
Started(i, k) == Len(injectors'[i].futs[k]) > Len(injectors[i].futs[k])
C16_AsyncSharesSyncTakesOver ==
    /\ [](\A i \in Injs : \A k \in KeyIdRange :
            (InFlight(i, k) /\ ~GetBinding(H, i, k).async) =>
                ~IsWaiting(Slot(GetByKey(H, i, k, FALSE, FALSE).h, i, k)))
    /\ [][\A i \in 1..Len(injectors) : \A k \in KeyIdRange :
            /\ Started(i, k) =>
                  /\ ~IsWaiting(injectors[i].instances[k])
                  /\ Len(injectors'[i].futs[k]) = Len(injectors[i].futs[k]) + 1
                  /\ injectors'[i].instances[k] = Waiting(i, k, Len(injectors'[i].futs[k]))
            /\ (IsWaiting(injectors'[i].instances[k])
                  /\ injectors'[i].instances[k] # injectors[i].instances[k]) =>
                  Started(i, k)]_vars

C16_Witness ==
    \E i \in Injs : \E k \in KeyIdRange :
        /\ Len(injectors[i].futs[k]) = 2
        /\ Slot(H, i, k) = Waiting(i, k, 2)
        /\ PendingFutures(i, k) = {1, 2}

(***************************************************************************)
(* C17 (null is a value): when the factory of a token bound in the         *)
(* injector returns null, get returns null rather than raising or asking   *)
(* the parent, and the next get does not call the factory again.           *)
(***************************************************************************)
ReturnsNull(i, k) ==
    /\ Bound(i, k)
    /\ GetBinding(H, i, k).fac = "null"
    /\ ~GetBinding(H, i, k).async
C17_NullIsAValue ==
    \A i \in Injs : \A k \in KeyIdRange :
        ReturnsNull(i, k) =>
            LET r == GetByKey(H, i, k, FALSE, FALSE)
                s == GetByKey(r.h, i, k, FALSE, FALSE) IN
            /\ r.ok /\ r.v = Null
            /\ \A j \in Injs \ {i} : r.h.injs[j] = injectors[j]
            /\ Calls(s.h, i, k) = Calls(r.h, i, k)

(***************************************************************************)
(* C18 (one cache for both strategies): an instance a get has built and    *)
(* returned is what asyncGet yields, as a completed future and without a   *)
(* factory call; the value a computation of asyncGet has completed with is *)
(* what get returns, without a factory call.                               *)
(***************************************************************************)
ReturnedByGet(i, k) == {c \in Productive(H, i, k) : Calls(H, i, k)[c].by = 0}
CompletedFutures(i, k) ==
    {n \in 1..Len(injectors[i].futs[k]) : injectors[i].futs[k][n].phase = "done"}
C18_SharedCache ==
    \A i \in Injs : \A k \in KeyIdRange :
        /\ \A c \in ReturnedByGet(i, k) :
               LET r == GetByKey(H, i, k, TRUE, FALSE) IN
               r.ok /\ r.v = FutureValue(Obj(i, k, c)) /\ r.h = H
        /\ \A n \in CompletedFutures(i, k) :
               LET r == GetByKey(H, i, k, FALSE, FALSE) IN
               r.ok /\ r.v = injectors[i].futs[k][n].val /\ r.h = H

(***************************************************************************)
(* C19 (createChild): a createChild that returns adds one injector whose   *)
(* table is the flattening of the given collection alone, whose slots are  *)
(* all empty and whose parent is the injector it was called on; the        *)
(* injectors that existed, the parent included, are unchanged.             *)
(***************************************************************************)
Latest == injectors'[Len(injectors')]
C19_CreateChildFrame ==
    [][Len(injectors') # Len(injectors) =>
          /\ Len(injectors') = Len(injectors) + 1
          /\ Latest.parent \in 1..Len(injectors)
          /\ \A k \in KeyIdRange :
                Latest.instances[k] = Null /\ Latest.futs[k] = <<>> /\ Latest.calls[k] = <<>>
          /\ \E raw \in Worlds[world].children :
                Wellformed(raw) /\ Latest.bindings = LastWinsTable(raw)'
          /\ \A j \in 1..Len(injectors) : injectors'[j] = injectors[j]]_vars

C19_Witness ==
    /\ Len(injectors) = 2
    /\ injectors[2].parent = 1
    /\ \A k \in KeyIdRange : Slot(H, 2, k) = Null
    /\ \E k \in KeyIdRange : IsResolved(Slot(H, 1, k)) /\ Bound(2, k)
    /\ \E k \in KeyIdRange : IsWaiting(Slot(H, 1, k))
    /\ \E k \in KeyIdRange : Bound(1, k) /\ ~Bound(2, k)

(***************************************************************************)
(* C20 (a child never mutates its parent), as stated: no get, asyncGet or  *)
(* createChild on a child changes the table or the slots of an ancestor.   *)
(***************************************************************************)
Children == {i \in Injs : injectors[i].parent # 0}
SameTable(h, a) == h.injs[a].bindings = injectors[a].bindings
C20_ParentUntouched ==
    \A i \in Children : \A a \in Injs :
        IsAncestor(a, i) =>
            /\ \A tok \in LookupTokens :
                /\ SameTable(SyncGet(i, tok).h, a)
                /\ SameTable(AsyncGetOf(i, tok).h, a)
                /\ SyncGet(i, tok).h.injs[a].instances = injectors[a].instances
                /\ AsyncGetOf(i, tok).h.injs[a].instances = injectors[a].instances
            /\ \A raw \in Worlds[world].children :
                Construct(keyIds, injectors, raw, i).injs[a] = injectors[a]

(***************************************************************************)
(* C20, amended: a createChild on a child changes no injector that exists, *)
(* and a get or asyncGet on a child changes no table; it writes a slot of  *)
(* an ancestor only by delegation, that is only the slot of a key the      *)
(* ancestor binds, with a marker or an instance of the ancestor's own      *)
(* construction (or empty).                                                *)
(***************************************************************************)
OwnWrites(h, a) ==
    \A k \in KeyIdRange :
        Slot(h, a, k) # Slot(H, a, k) =>
            /\ Bound(a, k)
            /\ \/ IsBlank(Slot(h, a, k))
               \/ Slot(h, a, k).tag \in {"obj", "waiting"}
                    /\ Slot(h, a, k).a = a /\ Slot(h, a, k).b = k
C20_ParentWrittenByDelegationOnly ==
    \A i \in Children : \A a \in Injs :
        IsAncestor(a, i) =>
            /\ \A tok \in LookupTokens :
                /\ SameTable(SyncGet(i, tok).h, a)
                /\ SameTable(AsyncGetOf(i, tok).h, a)
                /\ OwnWrites(SyncGet(i, tok).h, a)
                /\ OwnWrites(AsyncGetOf(i, tok).h, a)
            /\ \A raw \in Worlds[world].children :
                Construct(keyIds, injectors, raw, i).injs[a] = injectors[a]

C20_Witness ==
    \E i \in Children : \E tok \in LookupTokens :
        LET a == injectors[i].parent
            k == keyIds[tok] IN
        /\ Bound(i, k) /\ Bound(a, k)
        /\ IsResolved(Slot(H, i, k))
        /\ \E tok2 \in LookupTokens :
            LET s == SyncGet(i, tok2) IN
            /\ s.ok /\ s.v.tag = "obj" /\ s.v.a = a
            /\ IsBlank(Slot(H, a, s.v.b))
            /\ Slot(s.h, a, s.v.b) = s.v
            /\ Slot(s.h, a, k) # Slot(H, a, k)


(***************************************************************************)
(* C21  The binding table of an injector is fixed by its constructor: no   *)
(* step (get, asyncGet, the lookup a thunk performs, createChild, a        *)
(* callback of a pending future, a change of the outside condition)        *)
(* changes the table or the array size of an injector that exists.         *)
(***************************************************************************)
C21_BindingTableImmutable ==
    [][\A i \in Injs :
          /\ i <= Len(injectors')
          /\ injectors'[i].bindings = injectors[i].bindings
          /\ injectors'[i].size = injectors[i].size]_vars

C21_Witness ==
    /\ Len(injectors) = 2
    /\ \E i \in Injs, k \in KeyIdRange :
          /\ CompletedFutures(i, k) # {}
          /\ IsResolved(Slot(H, i, k))
    /\ \A i \in Injs : \E raw \in BuiltFrom(i) :
          injectors[i].bindings = LastWinsTable(raw)


(***************************************************************************)
(* C22  A lookup of the Injector token on injector i returns i itself      *)
(* (get) or a completed computation of i (asyncGet), never an ancestor,    *)
(* and changes nothing: it is answered before any slot or binding is       *)
(* looked at, so the answer is the same when i and its ancestors bind the  *)
(* token and whatever the slots of the token hold.                         *)
(***************************************************************************)
OwnKey == KeyGet(keyIds, InjectorToken)[InjectorToken]
WithSlots(v) ==
    Heap(KeyGet(keyIds, InjectorToken),
         [j \in Injs |-> [injectors[j] EXCEPT !.instances[OwnKey] = v]], broken)
C22_OwnToken ==
    \A i \in Injs :
        /\ SyncGet(i, InjectorToken) = Ok(WithSlots(Null), InjVal(i))
        /\ AsyncGetOf(i, InjectorToken) = Ok(WithSlots(Null), FutureValue(InjVal(i)))
        /\ \A v \in {Null, Constructing, Waiting(i, OwnKey, 1), Obj(i, OwnKey, 1)} :
              /\ GetByKey(WithSlots(v), i, OwnKey, FALSE, FALSE)
                     = Ok(WithSlots(v), InjVal(i))
              /\ GetByKey(WithSlots(v), i, OwnKey, TRUE, FALSE)
                     = Ok(WithSlots(v), FutureValue(InjVal(i)))

C22_Witness ==
    /\ Len(injectors) = 2
    /\ \A i \in Injs : Bound(i, OwnKey)
    /\ SyncGet(2, InjectorToken).v = InjVal(2)
    /\ AsyncGetOf(2, InjectorToken).v = FutureValue(InjVal(2))
    /\ \E k \in KeyIdRange :
          /\ Calls(H, 1, k) # <<>>
          /\ Calls(H, 1, k)[1].args = <<InjVal(1)>>


(***************************************************************************)
(* C23  A lazy lookup returns a thunk and nothing else happens: the heap   *)
(* is unchanged (no slot written, no factory called) whatever the slot     *)
(* holds, so CyclicDependencyError is raised only for a cycle of non-lazy  *)
(* dependencies.  The thunk a factory receives for a lazy dependency is    *)
(* bound to the injector that owns the binding, the key of the dependency  *)
(* and the mode of the construction; invoking it is that lookup with       *)
(* lazy = false.  Invoking it again returns the same instance (the same    *)
(* computation in async mode) and calls no factory again.                  *)
(***************************************************************************)
InvokeThunk(h, t) == GetByKey(h, t.a, t.b, t.c = 1, FALSE)
Thunks ==
    {t \in UNION {{Calls(H, i, k)[c].args[n] : n \in 1..Len(Calls(H, i, k)[c].args)} :
                     <<i, k, c>> \in {x \in Injs \X KeyIdRange \X (1..(MaxCalls + MaxFuturesStale)) :
                                         x[3] <= Len(Calls(H, x[1], x[2]))}} :
        t.tag = "thunk"}
Marked(i, k, v) == Heap(keyIds, [injectors EXCEPT ![i].instances[k] = v], broken)
C23_LazyLookup ==
    /\ \A i \in Injs : \A k \in KeyIdRange : \A rf \in BOOLEAN :
           \A v \in {Slot(H, i, k), Constructing} :
               GetByKey(Marked(i, k, v), i, k, rf, TRUE)
                   = Ok(Marked(i, k, v), Thunk(i, k, rf))
    /\ \A i \in Injs : \A tok \in LookupTokens : \A rf \in BOOLEAN :
           LET r == Lookup(keyIds, injectors, broken, i, tok, rf) IN
           (~r.ok /\ r.e.tag = "Cyclic") => OnCycle(<<r.e.at, r.e.keys[1]>>)
    /\ \A i \in Injs : \A k \in KeyIdRange : \A c \in 1..Len(Calls(H, i, k)) :
           LET deps == GetBinding(H, i, k).deps
               call == Calls(H, i, k)[c] IN
           \A n \in 1..Len(deps) :
               deps[n].lazy =>
                   call.args[n] = Thunk(i, deps[n].key, call.by > 0 \/ deps[n].asFuture)
    /\ \A t \in Thunks :
           LET first == InvokeThunk(H, t)
               again == InvokeThunk(first.h, t) IN
           first.ok =>
               /\ again.ok
               /\ again.v = first.v
               /\ again.h = first.h
               /\ \A i \in Injs : \A k \in KeyIdRange :
                      Len(Calls(first.h, i, k)) <= Len(Calls(H, i, k)) + 1

C23_Witness ==
    \E t \in Thunks :
        LET first == InvokeThunk(H, t) IN
        /\ Slot(H, t.a, t.b) = Null
        /\ first.ok
        /\ first.v.tag = "obj"
        /\ Len(Calls(first.h, t.a, t.b)) = 1
        /\ \E k \in KeyIdRange :
              /\ IsResolved(Slot(H, t.a, k))
              /\ \E n \in 1..Len(GetBinding(H, t.a, t.b).deps) :
                     GetBinding(H, t.a, t.b).deps[n].key = k
              /\ Calls(first.h, t.a, t.b)[1].args = <<Slot(H, t.a, k)>>


(***************************************************************************)
(* C24  When asyncGet(t) on an injector with a binding of t returns a      *)
(* pending computation, the slot of t holds the pending marker of exactly  *)
(* that computation; when the call started the construction (the slot was  *)
(* empty), the computation is new, waits for its dependencies, and the     *)
(* factory of t has not been called during the call.                       *)
(***************************************************************************)
C24_MarkerBeforeSuspension ==
    \A i \in Injs : \A tok \in LookupTokens :
        LET k == keyIds[tok]
            r == AsyncGetOf(i, tok) IN
        (Bound(i, k) /\ r.ok /\ r.v.tag = "fut") =>
            /\ Slot(r.h, i, k) = Waiting(r.v.a, r.v.b, r.v.c)
            /\ <<r.v.a, r.v.b>> = <<i, k>>
            /\ IsBlank(Slot(H, i, k)) =>
                   /\ r.v.c = Len(injectors[i].futs[k]) + 1
                   /\ Len(r.h.injs[i].futs[k]) = r.v.c
                   /\ FutureOf(r.h, r.v).phase = "deps"
                   /\ Calls(r.h, i, k) = Calls(H, i, k)

C24_Witness ==
    \E i \in Injs : \E tok \in LookupTokens :
        LET k == keyIds[tok]
            r == AsyncGetOf(i, tok) IN
        /\ Bound(i, k)
        /\ GetBinding(H, i, k).deps # <<>>
        /\ Slot(H, i, k) = Waiting(i, k, 1)
        /\ FutureOf(H, Fut(i, k, 1)).phase = "deps"
        /\ Calls(H, i, k) = <<>>
        /\ r = Ok(H, Fut(i, k, 1))


(***************************************************************************)
(* C25 (dependencies first), as stated: when an asyncGet(t) that started   *)
(* the construction of t returns, every dependency of t that has a binding *)
(* has a non-empty slot in the injector that binds it; and the factory of  *)
(* t is called by a computation only when all its dependency computations  *)
(* have completed, with their values in declared order.                    *)
(***************************************************************************)
StartsConstruction(d, k, r) == d # 0 /\ IsBlank(Slot(H, d, k)) /\ r.ok /\ r.v = Fut(d, k, r.v.c)
DepIssued(h, d, dep) ==
    Binder(d, dep.key) # 0 => IsPresent(Slot(h, Binder(d, dep.key), dep.key))
FactoryAfterDependencies ==
    \A i \in Injs : \A k \in KeyIdRange : \A c \in 1..Len(Calls(H, i, k)) :
        LET call == Calls(H, i, k)[c] IN
        call.by > 0 =>
            LET deps == injectors[i].futs[k][call.by].deps IN
            /\ Len(call.args) = Len(GetBinding(H, i, k).deps)
            /\ \A m \in 1..Len(deps) :
                  /\ Completed(H, deps[m])
                  /\ call.args[m] = SettledValue(H, deps[m])
C25_AllDependenciesIssued ==
    /\ \A i \in Injs : \A tok \in LookupTokens :
           LET k == keyIds[tok]
               d == Binder(i, k)
               r == AsyncGetOf(i, tok) IN
           StartsConstruction(d, k, r) =>
               \A n \in 1..Len(GetBinding(H, d, k).deps) :
                   DepIssued(r.h, d, GetBinding(H, d, k).deps[n])
    /\ FactoryAfterDependencies

(***************************************************************************)
(* C25, amended: the same for every dependency that is not lazy and is not *)
(* the Injector token; a lazy dependency is handed over as a thunk and the *)
(* Injector token as the injector, without a construction being started.   *)
(***************************************************************************)
C25_EagerDependenciesIssued ==
    /\ \A i \in Injs : \A tok \in LookupTokens :
           LET k == keyIds[tok]
               d == Binder(i, k)
               r == AsyncGetOf(i, tok) IN
           StartsConstruction(d, k, r) =>
               \A n \in 1..Len(GetBinding(H, d, k).deps) :
                   LET dep == GetBinding(H, d, k).deps[n] IN
                   (~dep.lazy /\ dep.key # OwnKey) => DepIssued(r.h, d, dep)
    /\ FactoryAfterDependencies

C25_Witness ==
    \E i \in Injs : \E k \in KeyIdRange : \E c \in 1..Len(Calls(H, i, k)) :
        LET call == Calls(H, i, k)[c] IN
        /\ call.by > 0
        /\ Len(call.args) = 2
        /\ call.args[1].tag = "obj"
        /\ call.args[2].tag = "obj"
        /\ call.args[1] # call.args[2]
        /\ \E m \in 1..2 : injectors[i].futs[k][call.by].deps[m].tag = "fut"


(***************************************************************************)
(* C26 (async success): in every step in which a computation started by    *)
(* asyncGet completes successfully, its value is an instance that a        *)
(* successful call of the factory of its own binding returned, and the     *)
(* slot of its key holds that instance after the step.                     *)
(***************************************************************************)
C26_AsyncSuccess ==
    [][\A i \in Injs : \A k \in KeyIdRange : \A n \in 1..Len(injectors[i].futs[k]) :
          (injectors[i].futs[k][n].phase # "done"
              /\ injectors'[i].futs[k][n].phase = "done") =>
              LET v == injectors'[i].futs[k][n].val IN
              /\ v.tag = "obj"
              /\ <<v.a, v.b>> = <<i, k>>
              /\ v.c \in 1..Len(injectors'[i].calls[k])
              /\ injectors'[i].calls[k][v.c].out = "value"
              /\ injectors'[i].instances[k] = v]_vars


(***************************************************************************)
(* C27 (async dependency failure): a computation that failed because the   *)
(* computation of a dependency failed carries the error of that            *)
(* dependency with its own key added at the end, and no factory call was   *)
(* made by it.                                                             *)
(***************************************************************************)
C27_DependencyFailure ==
    \A i \in Injs : \A k \in KeyIdRange : \A n \in FailedFutures(i, k, "dependency") :
        LET f == injectors[i].futs[k][n] IN
        /\ \E m \in 1..Len(f.deps) :
              /\ Failed(H, f.deps[m])
              /\ f.err.tag = FutureOf(H, f.deps[m]).err.tag
              /\ f.err.at = FutureOf(H, f.deps[m]).err.at
              /\ f.err.keys = Append(FutureOf(H, f.deps[m]).err.keys, k)
        /\ CallsBy(i, k, n) = {}


(***************************************************************************)
(* C28 (force-async dependency under get), as stated: a synchronous get    *)
(* that constructs a binding with a dependency marked force-async whose    *)
(* binding is async-only fails with AsyncBindingError raised for that      *)
(* dependency.                                                             *)
(***************************************************************************)
FutureDeps(d, k) ==
    {n \in 1..Len(GetBinding(H, d, k).deps) :
        LET dep == GetBinding(H, d, k).deps[n] IN
        /\ dep.asFuture /\ ~dep.lazy
        /\ Binder(d, dep.key) # 0
        /\ GetBinding(H, Binder(d, dep.key), dep.key).async}
Constructs(d, k) == d # 0 /\ ~IsResolved(Slot(H, d, k)) /\ k # OwnKey
C28_ForcedAsyncRaises ==
    \A i \in Injs : \A tok \in LookupTokens :
        LET k == keyIds[tok]
            d == Binder(i, k)
            r == SyncGet(i, tok) IN
        (Constructs(d, k) /\ FutureDeps(d, k) # {}) =>
            /\ ~r.ok
            /\ r.e.tag = "AsyncBinding"
            /\ \E n \in FutureDeps(d, k) : r.e.keys[1] = GetBinding(H, d, k).deps[n].key

(***************************************************************************)
(* C28, amended: a dependency marked force-async is looked up in async     *)
(* mode under a synchronous get, and the factory receives its computation  *)
(* (pending, or already complete); an async-only binding is one the async  *)
(* strategy constructs, so this raises no AsyncBindingError and get(t)     *)
(* succeeds when nothing else fails.  AsyncBindingError comes only from a  *)
(* dependency that is not marked force-async (or from the token of the     *)
(* get itself).                                                            *)
(***************************************************************************)
C28_ForcedAsyncReceivesFuture ==
    \A i \in Injs : \A tok \in LookupTokens :
        LET k == keyIds[tok]
            d == Binder(i, k)
            r == SyncGet(i, tok) IN
        /\ (Constructs(d, k) /\ r.ok /\ Built(r.h, d, k)) =>
               \A n \in FutureDeps(d, k) :
                   LET dep == GetBinding(H, d, k).deps[n]
                       dd == Binder(d, dep.key)
                       got == Received(r.h, d, k, n) IN
                   /\ got.tag \in {"fut", "ready"}
                   /\ ~IsResolved(Slot(H, dd, dep.key)) =>
                          /\ got.tag = "fut"
                          /\ Slot(r.h, dd, dep.key) = Waiting(got.a, got.b, got.c)
        /\ (Constructs(d, k) /\ GetBinding(H, d, k).fac = "new"
               /\ FutureDeps(d, k) = 1..Len(GetBinding(H, d, k).deps)) =>
               r.ok /\ Built(r.h, d, k)
        /\ (~r.ok /\ r.e.tag = "AsyncBinding" /\ Len(r.e.keys) > 1) =>
               \E j \in Injs :
                   /\ Bound(j, r.e.keys[2])
                   /\ \E n \in 1..Len(GetBinding(H, j, r.e.keys[2]).deps) :
                          LET dep == GetBinding(H, j, r.e.keys[2]).deps[n] IN
                          dep.key = r.e.keys[1] /\ ~dep.asFuture /\ ~dep.lazy

C28_Witness ==
    \E i \in Injs : \E k \in KeyIdRange :
        /\ FutureDeps(i, k) # {}
        /\ IsResolved(Slot(H, i, k))
        /\ Calls(H, i, k) # <<>>
        /\ Calls(H, i, k)[1].by = 0
        /\ Calls(H, i, k)[1].args[1].tag = "fut"
        /\ FutureOf(H, Calls(H, i, k)[1].args[1]).phase = "deps"


(***************************************************************************)
(* C29 (error chain): a NoProviderError, CyclicDependencyError or          *)
(* AsyncBindingError that a get or asyncGet raises lists the failing key   *)
(* first and then the key of every construction it passed through, each    *)
(* once, innermost first, ending with the requested key: consecutive keys  *)
(* are a dependency and the binding that declares it.                      *)
(***************************************************************************)
Declares(outer, inner) ==
    \E j \in Injs :
        /\ Bound(j, outer)
        /\ \E n \in 1..Len(GetBinding(H, j, outer).deps) :
              /\ GetBinding(H, j, outer).deps[n].key = inner
              /\ ~GetBinding(H, j, outer).deps[n].lazy
C29_ErrorChain ==
    \A i \in Injs : \A tok \in LookupTokens : \A rf \in BOOLEAN :
        LET r == Lookup(keyIds, injectors, broken, i, tok, rf)
            keys == r.e.keys IN
        (~r.ok /\ r.e.tag \in {"NoProvider", "Cyclic", "AsyncBinding"}) =>
            /\ keys # <<>>
            /\ keys[Len(keys)] = r.h.reg[tok]
            /\ \A m \in 1..(Len(keys) - 1) : Declares(keys[m + 1], keys[m])

C29_Witness ==
    \E i \in Injs : \E tok \in LookupTokens :
        LET r == SyncGet(i, tok)
            s == AsyncGetOf(i, tok) IN
        /\ ~r.ok /\ r.e.tag = "Cyclic" /\ Len(r.e.keys) = 3
        /\ ~s.ok /\ s.e.tag = "Cyclic" /\ Len(s.e.keys) = 3
        /\ r.e.keys[1] = r.e.keys[3] /\ r.e.keys[2] # r.e.keys[1]
        /\ \E k \in KeyIdRange : IsResolved(Slot(H, i, k))


(***************************************************************************)
(* C30 (late key ids): a get or asyncGet on injector i of a token whose    *)
(* key id is not below the size of i's arrays (the key was registered      *)
(* after i was built) finds no instance and no binding on i, leaves i as   *)
(* it is, and is answered by the parent's lookup of the key, or raises     *)
(* NoProviderError for the key on a root.                                  *)
(***************************************************************************)
IsLate(i, tok) == LateKey(tok) >= injectors[i].size /\ tok # InjectorToken
C30_LateKey ==
    \A i \in Injs : \A tok \in LookupTokens : \A rf \in BOOLEAN :
        IsLate(i, tok) =>
            LET k == LateKey(tok)
                h == Heap(KeyGet(keyIds, tok), injectors, broken)
                r == Lookup(keyIds, injectors, broken, i, tok, rf) IN
            /\ GetInstance(h, i, k) = Null
            /\ GetBinding(h, i, k) = NoBinding
            /\ r.h.injs[i] = injectors[i]
            /\ r = IF injectors[i].parent = 0 THEN Fail(h, NoProviderError(i, k))
                   ELSE GetByKey(h, injectors[i].parent, k, rf, FALSE)

C30_Witness ==
    /\ Len(injectors) = 2
    /\ \E tok \in LookupTokens :
          /\ keyIds[tok] # 0
          /\ IsLate(1, tok)
          /\ ~IsLate(2, tok)
          /\ IsResolved(Slot(H, 2, keyIds[tok]))
          /\ SyncGet(1, tok) = Fail(H, NoProviderError(1, keyIds[tok]))
          /\ SyncGet(2, tok) = Ok(H, Slot(H, 2, keyIds[tok]))


(***************************************************************************)
(* C31  The construction marker is never in a slot between two calls or    *)
(* callbacks: no reachable state has one, and no get or asyncGet, whether  *)
(* it returns or raises, leaves one.  So CyclicDependencyError is raised   *)
(* only for a key that depends on itself through non-lazy dependencies,    *)
(* never because of what another lookup in flight left in a slot.          *)
(***************************************************************************)
C31_NoMarkerBetweenCalls ==
    /\ NoMarker(H)
    /\ \A i \in Injs : \A tok \in LookupTokens : \A rf \in BOOLEAN :
           LET r == Lookup(keyIds, injectors, broken, i, tok, rf) IN
           /\ NoMarker(r.h)
           /\ (~r.ok /\ r.e.tag = "Cyclic") =>
                  /\ OnCycle(<<r.e.at, r.e.keys[1]>>)
                  /\ Slot(H, r.e.at, r.e.keys[1]) # Constructing

C31_Witness ==
    /\ \E i \in Injs : \E k \in KeyIdRange : IsWaiting(Slot(H, i, k))
    /\ \E i \in Injs : \E tok \in LookupTokens :
           LET r == SyncGet(i, tok) IN
           /\ ~r.ok
           /\ Len(r.e.keys) = 3
           /\ \E k \in KeyIdRange : IsWaiting(Slot(H, i, k)) /\ Slot(r.h, i, k) = Null
           /\ NoMarker(r.h)


(***************************************************************************)
(* C32  A get that is delegated is the get of the ancestor that binds the  *)
(* token: the dependencies are looked up from that ancestor upwards, the   *)
(* requester's own bindings play no part and the requester is not          *)
(* changed.  A dependency bound only below the owner is not found: the     *)
(* get raises NoProviderError for it, raised on the root, with the token   *)
(* added.                                                                  *)
(***************************************************************************)
BoundOnlyBelow(d, k) ==
    /\ Binder(d, k) = 0
    /\ k # OwnKey
    /\ \E j \in Injs : IsAncestor(d, j) /\ Bound(j, k)
C32_OwnerScope ==
    \A i \in Injs : \A tok \in LookupTokens :
        LET k == keyIds[tok]
            d == Binder(i, k)
            r == SyncGet(i, tok) IN
        (d # 0 /\ d # i) =>
            /\ r = GetByKey(H, d, k, FALSE, FALSE)
            /\ r.h.injs[i] = injectors[i]
            /\ (~IsResolved(Slot(H, d, k)) /\ GetBinding(H, d, k).deps # <<>>
                   /\ BoundOnlyBelow(d, GetBinding(H, d, k).deps[1].key)) =>
                   r = Fail(H, AddKey(NoProviderError(Root(d),
                                          GetBinding(H, d, k).deps[1].key), k))

C32_Witness ==
    \E i \in Injs : \E tok \in LookupTokens :
        LET k == keyIds[tok]
            d == Binder(i, k)
            r == SyncGet(i, tok) IN
        /\ d # 0 /\ d # i
        /\ GetBinding(H, d, k).deps # <<>>
        /\ BoundOnlyBelow(d, GetBinding(H, d, k).deps[1].key)
        /\ Bound(i, GetBinding(H, d, k).deps[1].key)
        /\ IsResolved(Slot(H, i, GetBinding(H, d, k).deps[1].key))
        /\ ~r.ok /\ r.e.tag = "NoProvider"


(***************************************************************************)
(* C33  The slot array of an injector is written only at keys the injector *)
(* itself binds: in every state the slots of the other keys are empty,     *)
(* and a get or asyncGet of a token the injector does not bind leaves its  *)
(* slot array as it was, whether the lookup returns an ancestor's value,   *)
(* returns a pending computation, or raises.                               *)
(***************************************************************************)
C33_SlotsOfOwnBindingsOnly ==
    /\ \A i \in Injs : \A k \in KeyIdRange :
           injectors[i].bindings[k] = NoBinding => injectors[i].instances[k] = Null
    /\ \A i \in Injs : \A tok \in LookupTokens : \A rf \in BOOLEAN :
           LET r == Lookup(keyIds, injectors, broken, i, tok, rf) IN
           GetBinding(r.h, i, r.h.reg[tok]) = NoBinding =>
               r.h.injs[i].instances = injectors[i].instances

C33_Witness ==
    /\ Len(injectors) = 2
    /\ \E tok \in LookupTokens :
          LET k == keyIds[tok]
              r == SyncGet(2, tok)
              s == AsyncGetOf(2, tok) IN
          /\ k # 0 /\ ~Bound(2, k) /\ Bound(1, k)
          /\ \E c \in KeyIdRange : IsResolved(Slot(H, 2, c))
          /\ r.ok /\ Slot(r.h, 1, k) = r.v /\ Slot(H, 1, k) = Null
          /\ r.h.injs[2] = injectors[2]
          /\ s.ok /\ IsWaiting(Slot(s.h, 1, k))
          /\ s.h.injs[2].instances = injectors[2].instances


(***************************************************************************)
(* C34 (errors of the synchronous part of asyncGet), as stated: an         *)
(* asyncGet of a token without provider raises NoProviderError, an         *)
(* asyncGet of a token on a dependency cycle raises                        *)
(* CyclicDependencyError, and an asyncGet that raises one of the two       *)
(* leaves no construction marker and no pending marker that was not there  *)
(* before the call.                                                        *)
(***************************************************************************)
RaisesSynchronously(i, tok, r) ==
    LET k == r.h.reg[tok]
        d == Binder(i, keyIds[tok]) IN
    /\ (tok # InjectorToken /\ d = 0) => r = Fail(r.h, NoProviderError(Root(i), k))
    /\ (d # 0 /\ OnCycle(<<d, k>>)) => (~r.ok /\ r.e.tag = "Cyclic")
Raised(r) == ~r.ok /\ r.e.tag \in {"NoProvider", "Cyclic"}
C34_NothingLeftBehind ==
    \A i \in Injs : \A tok \in LookupTokens :
        LET r == AsyncGetOf(i, tok) IN
        /\ RaisesSynchronously(i, tok, r)
        /\ Raised(r) =>
               /\ NoMarker(r.h)
               /\ \A j \in Injs : \A k \in KeyIdRange :
                      IsWaiting(Slot(r.h, j, k)) => Slot(r.h, j, k) = Slot(H, j, k)

(***************************************************************************)
(* C34, amended: the call leaves no construction marker, and the slots of  *)
(* the keys on the failing path are what they were; but a dependency whose *)
(* lookup succeeded before the failure was met keeps the pending marker    *)
(* and the new computation that lookup started.                            *)
(***************************************************************************)
InKeys(e, k) == \E m \in 1..Len(e.keys) : e.keys[m] = k
C34_FailingPathRolledBack ==
    \A i \in Injs : \A tok \in LookupTokens :
        LET r == AsyncGetOf(i, tok) IN
        /\ RaisesSynchronously(i, tok, r)
        /\ Raised(r) =>
               /\ NoMarker(r.h)
               /\ \A j \in Injs : \A k \in KeyIdRange :
                      Slot(r.h, j, k) # Slot(H, j, k) =>
                          /\ ~InKeys(r.e, k)
                          /\ Slot(H, j, k) = Null
                          /\ Slot(r.h, j, k) = Waiting(j, k, Len(injectors[j].futs[k]) + 1)
                          /\ FutureOf(r.h, Fut(j, k, Len(injectors[j].futs[k]) + 1)).phase
                                 = "deps"

C34_Witness ==
    \E i \in Injs : \E tok \in LookupTokens :
        LET r == AsyncGetOf(i, tok) IN
        /\ ~r.ok /\ r.e.tag = "Cyclic" /\ Len(r.e.keys) = 3
        /\ NoMarker(r.h)
        /\ \E k \in KeyIdRange : Slot(H, 1, k) = Null /\ IsWaiting(Slot(r.h, 1, k))
        /\ Len(injectors) = 2 /\ i = 2


(***************************************************************************)
(* C35 (mixed-mode single construction): as long as no factory call has    *)
(* failed, the factory of a key has been called at most once on an         *)
(* injector, whatever get and asyncGet calls and callbacks have run; and a *)
(* computation that completes after a synchronous get has constructed the  *)
(* key completes with the instance of that get.                            *)
(***************************************************************************)
NoFactoryFailure ==
    \A i \in Injs : \A k \in KeyIdRange :
        /\ \A c \in 1..Len(Calls(H, i, k)) : Calls(H, i, k)[c].out # "throw"
        /\ FailedFutures(i, k, "factory") = {}
C35_SingleConstruction ==
    NoFactoryFailure =>
        \A i \in Injs : \A k \in KeyIdRange :
            /\ Len(Calls(H, i, k)) <= 1
            /\ \A n \in CompletedFutures(i, k) :
                   CallsBy(i, k, 0) # {} =>
                       \E c \in CallsBy(i, k, 0) :
                           injectors[i].futs[k][n].val = Obj(i, k, c)


(***************************************************************************)
(* C36  For a key with an async-only binding, a synchronous lookup raises  *)
(* AsyncBindingError only while the slot is not resolved: once a           *)
(* computation of the key has completed, the slot holds its value and a    *)
(* synchronous lookup returns it and changes nothing.                      *)
(***************************************************************************)
AsyncOnlyKey(i, k) == Bound(i, k) /\ GetBinding(H, i, k).async /\ k # OwnKey
C36_CachedAsyncValue ==
    \A i \in Injs : \A k \in KeyIdRange :
        AsyncOnlyKey(i, k) =>
            LET r == GetByKey(H, i, k, FALSE, FALSE) IN
            /\ (~r.ok /\ r.e.tag = "AsyncBinding") => ~IsResolved(Slot(H, i, k))
            /\ IsResolved(Slot(H, i, k)) => r = Ok(H, Slot(H, i, k))
            /\ \A n \in CompletedFutures(i, k) :
                   /\ IsResolved(injectors[i].futs[k][n].val)
                   /\ r = Ok(H, injectors[i].futs[k][n].val)

C36_Witness ==
    \E i \in Injs : \E k \in KeyIdRange :
        /\ AsyncOnlyKey(i, k)
        /\ CompletedFutures(i, k) # {}
        /\ GetByKey(H, i, k, FALSE, FALSE) = Ok(H, Obj(i, k, 1))
        /\ Calls(H, i, k)[1].by = 1


(***************************************************************************)
(* C37 (shared dependencies are built once), as stated: a successful get   *)
(* from empty slots calls the factory of every key that the token needs    *)
(* through non-lazy dependencies exactly once, and a factory receives for  *)
(* a dependency the instance in that dependency's slot; the same holds     *)
(* when the computations started by one asyncGet from empty slots have     *)
(* completed.                                                              *)
(***************************************************************************)
Needs(nd, sync, own) ==
    LET b == GetBinding(H, nd[1], nd[2]) IN
    {<<Binder(nd[1], b.deps[n].key), b.deps[n].key>> :
        n \in {m \in 1..Len(b.deps) :
                  /\ ~b.deps[m].lazy
                  /\ Binder(nd[1], b.deps[m].key) # 0
                  /\ sync => ~b.deps[m].asFuture
                  /\ ~own => b.deps[m].key # OwnKey}}
RECURSIVE ClosureOf(_, _, _, _)
ClosureOf(S, sync, own, fuel) ==
    LET T == S \cup UNION {Needs(nd, sync, own) : nd \in S} IN
    IF fuel = 0 \/ T = S THEN S ELSE ClosureOf(T, sync, own, fuel - 1)
Closure(d, k, sync, own) == ClosureOf({<<d, k>>}, sync, own, Cardinality(Nodes))
AllEmpty ==
    \A j \in Injs : \A k \in KeyIdRange :
        Slot(H, j, k) = Null /\ injectors[j].futs[k] = <<>> /\ Calls(H, j, k) = <<>>
BuiltOnce(h, S, sync) ==
    \A nd \in S :
        /\ Len(Calls(h, nd[1], nd[2])) = 1
        /\ Slot(h, nd[1], nd[2]) = Obj(nd[1], nd[2], 1)
        /\ \A n \in 1..Len(GetBinding(H, nd[1], nd[2]).deps) :
               LET dep == GetBinding(H, nd[1], nd[2]).deps[n] IN
               (/\ <<Binder(nd[1], dep.key), dep.key>> \in S \ {<<0, dep.key>>}
                /\ ~dep.lazy /\ dep.key # OwnKey
                /\ sync => ~dep.asFuture) =>
                   Calls(h, nd[1], nd[2])[1].args[n] = Slot(h, Binder(nd[1], dep.key), dep.key)
OneAsyncGetCompleted(d, k) ==
    /\ Cardinality(LookupTokens) = 1
    /\ NoFactoryFailure
    /\ \A j \in Injs : \A c \in KeyIdRange : CallsBy(j, c, 0) = {} /\ PendingFutures(j, c) = {}
    /\ CompletedFutures(d, k) # {}
BuiltOnceBy(sync, own) ==
    \A i \in Injs : \A tok \in LookupTokens :
        LET k == keyIds[tok]
            d == Binder(i, k)
            r == SyncGet(i, tok) IN
        (k # 0 /\ d # 0) =>
            /\ (sync /\ AllEmpty /\ r.ok) => BuiltOnce(r.h, Closure(d, k, FALSE, own), TRUE)
            /\ (~sync /\ OneAsyncGetCompleted(d, k)) => BuiltOnce(H, Closure(d, k, FALSE, own), FALSE)
C37_EveryKeyBuiltOnce == BuiltOnceBy(TRUE, TRUE) /\ BuiltOnceBy(FALSE, TRUE)

(***************************************************************************)
(* C37, amended: the same for the keys other than the Injector token,      *)
(* whose binding is never constructed; and under a synchronous get a       *)
(* dependency marked force-async, and what only it needs, is constructed   *)
(* by the computation the get starts, not during the get.                  *)
(***************************************************************************)
C37_EveryConstructedKeyBuiltOnce ==
    /\ \A i \in Injs : \A tok \in LookupTokens :
           LET k == keyIds[tok]
               d == Binder(i, k)
               r == SyncGet(i, tok) IN
           (k # 0 /\ k # OwnKey /\ d # 0) =>
               /\ (AllEmpty /\ r.ok) => BuiltOnce(r.h, Closure(d, k, TRUE, FALSE), TRUE)
               /\ OneAsyncGetCompleted(d, k) => BuiltOnce(H, Closure(d, k, FALSE, FALSE), FALSE)
    /\ \A j \in Injs : \A c \in KeyIdRange :
           (AllEmpty /\ Bound(j, c) /\ c # OwnKey) =>
               LET r == GetByKey(H, j, c, TRUE, FALSE)
                   S == Closure(j, c, FALSE, FALSE) IN
               r.ok => \A nd \in S :
                           /\ Len(r.h.injs[nd[1]].futs[nd[2]]) = 1
                           /\ Slot(r.h, nd[1], nd[2]) = Waiting(nd[1], nd[2], 1)
                           /\ Calls(r.h, nd[1], nd[2]) = <<>>

C37_Witness ==
    \E i \in Injs : \E tok \in LookupTokens :
        LET k == keyIds[tok]
            d == Binder(i, k) IN
        /\ k # 0 /\ d # 0
        /\ OneAsyncGetCompleted(d, k)
        /\ Cardinality(Closure(d, k, FALSE, FALSE)) = 3
        /\ \E nd \in Closure(d, k, FALSE, FALSE) :
               Cardinality({md \in Closure(d, k, FALSE, FALSE) :
                               nd \in Needs(md, FALSE, FALSE)}) = 2
        /\ BuiltOnce(H, Closure(d, k, FALSE, FALSE), FALSE)


(***************************************************************************)
(* C38 (a synchronous get ends): every get has an outcome, a value or an   *)
(* error, and the work it does is bounded by the bindings there are: it    *)
(* calls at most one factory per bound key of the injectors, and the key   *)
(* list of its error is no longer than that plus the failing key.  The     *)
(* recursion stops at a key under construction: a lookup of a key whose    *)
(* slot holds the construction marker raises CyclicDependencyError at      *)
(* once, without entering the binding.                                     *)
(***************************************************************************)
C38_GetEnds ==
    /\ \A i \in Injs : \A tok \in LookupTokens :
           LET r == SyncGet(i, tok) IN
           /\ r.ok \in BOOLEAN
           /\ r.ok => r.e = NoErr
           /\ ~r.ok => r.e.tag \in {"NoProvider", "Cyclic", "AsyncBinding", "Instantiation"}
           /\ TotalCalls(r.h.injs, Len(r.h.injs))
                  <= TotalCalls(injectors, Len(injectors)) + Cardinality(Nodes)
           /\ \A j \in Injs : \A k \in KeyIdRange :
                  Len(Calls(r.h, j, k)) <= Len(Calls(H, j, k)) + 1
           /\ Len(r.e.keys) <= Cardinality(Nodes) + 1
    /\ \A i \in Injs : \A k \in KeyIdRange :
           (Bound(i, k) /\ k # OwnKey) =>
               GetByKey(Marked(i, k, Constructing), i, k, FALSE, FALSE)
                   = Fail(Marked(i, k, Constructing), CyclicDependencyError(i, k))

C38_Witness ==
    /\ broken
    /\ \E i \in Injs : \E tok \in LookupTokens :
           LET r == SyncGet(i, tok) IN
           /\ ~r.ok /\ r.e.tag = "Cyclic"
           /\ Len(r.e.keys) = Cardinality(CycleOf(<<r.e.at, r.e.keys[1]>>)) + 1
           /\ r.h = H


(***************************************************************************)
(* C39 (async progress).  Under the fair scheduling of the callbacks,      *)
(* every computation an asyncGet started settles: it completes or fails.   *)
(* A settled computation stays as it settled and the program makes         *)
(* finitely many lookups, so this reads: from some point on no computation *)
(* is unsettled.  The step that completes the computation of a key leaves  *)
(* the slot of the key not pending.  Conversely, while the computation     *)
(* whose marker the slot of a key holds still waits for a dependency       *)
(* computation that has not settled, a step that is not a lookup (a        *)
(* callback, a change of the outside condition) leaves the marker in the   *)
(* slot.                                                                   *)
(***************************************************************************)
Unsettled(i, k, n) ==
    /\ i \in Injs /\ n \in 1..Len(injectors[i].futs[k])
    /\ injectors[i].futs[k][n].phase \notin {"done", "failed"}

StaysSettled ==
    \A i \in Injs : \A k \in KeyIdRange : \A n \in 1..Len(injectors[i].futs[k]) :
        ~Unsettled(i, k, n) => /\ n \in 1..Len(injectors'[i].futs[k])
                               /\ injectors'[i].futs[k][n] = injectors[i].futs[k][n]

NoneUnsettled ==
    \A i \in Injs : \A k \in KeyIdRange : \A n \in 1..MaxFuturesStale :
        ~Unsettled(i, k, n)

EverySettles == [][StaysSettled]_vars /\ <>[]NoneUnsettled

CompletionLeavesPending ==
    \A i \in Injs : \A k \in KeyIdRange : \A n \in 1..MaxFuturesStale :
        (Unsettled(i, k, n) /\ injectors'[i].futs[k][n].phase = "done")
            => ~IsWaiting(injectors'[i].instances[k])

WaitsForDependency(i, k, n) ==
    /\ Unsettled(i, k, n)
    /\ Slot(H, i, k) = Waiting(i, k, n)
    /\ injectors[i].futs[k][n].phase = "deps"
    /\ \E d \in 1..Len(injectors[i].futs[k][n].deps) :
           ~Settled(H, injectors[i].futs[k][n].deps[d])

KeepsMarker ==
    \A i \in Injs : \A k \in KeyIdRange : \A n \in 1..MaxFuturesStale :
        (WaitsForDependency(i, k, n) /\ (Callback \/ Toggle))
            => injectors'[i].instances[k] = Waiting(i, k, n)

OnlyComputation(i, k, n) ==
    \A m \in 1..Len(injectors[i].futs[k]) : m # n => ~Unsettled(i, k, m)

KeepsMarkerOfOnlyComputation ==
    \A i \in Injs : \A k \in KeyIdRange : \A n \in 1..MaxFuturesStale :
        (WaitsForDependency(i, k, n) /\ OnlyComputation(i, k, n) /\ (Callback \/ Toggle))
            => injectors'[i].instances[k] = Waiting(i, k, n)

ProgressOfOnlyComputation ==
    EverySettles /\ [][CompletionLeavesPending /\ KeepsMarkerOfOnlyComputation]_vars

C39_AsyncProgress ==
    EverySettles /\ [][CompletionLeavesPending /\ KeepsMarker]_vars
====
